---- MODULE Spec2Model ----
(***************************************************************************)
(* A model of the brianscheme heap, allocator and collector (src/gc.c).    *)
(* Cells are numbered 1..MaxCells in the order extend_heap creates them;   *)
(* NIL stands for the NULL pointer and DANGLING for an address outside of  *)
(* every slab.  The mutator is a client that keeps object references in a  *)
(* few C variables (locals), pins their addresses with push_root/pop_root, *)
(* allocates cells and initialises them.                                   *)
(***************************************************************************)
EXTENDS Integers, Sequences, FiniteSets, TLC

\* ------------------------------------------------------------------ bounds
\* size of the first slab (gc_init passes 1000)
InitialHeapCells == 2
\* first value of Next_Heap_Extension (1000 in the source)
InitialHeapExtension == 2
\* initial capacity of a stack_set (400 in the source)
InitialStackSize == 2
\* the slab never grows beyond this many cells
MaxCells == 4
\* number of C variables whose addresses can be pinned
NumLocals == 3
\* number of those variables the allocating client keeps references in
WorkingLocals == 2
\* height limit of Root_Objects: for the allocating client, and for the
\* client that only pushes and pops
MaxPinned == 2
MaxRoots == 4
\* number of baker_collect runs in one behaviour
MaxCollections == 2
\* longest VECTOR payload and largest hash table the mutator builds
MaxVectorLen == 2
MaxHashEntries == 1

\* --------------------------------------------------------------- constants
NIL == 0
DANGLING == -1
NotExited == -1
ColorModulus == 256
HeapGrowthFactor == 3
ExitCodeGc == 2

Cells == 1..MaxCells
Locals == 1..NumLocals

VARIABLES
  prev, next, color,          \* object header: list links and GC mark
  type, data,                 \* variant tag and the payload's references
  Active_Heap_Objects, Old_Heap_Objects,
  Next_Free_Object,
  Root_Objects, Finalizable_Objects, Finalizable_Objects_Next,
  current_color,
  Next_Heap_Extension,
  locals,                     \* the object* variables of the mutator
  workload,                   \* the kinds of object the client program builds
  pc,                         \* "idle", or "allocated" between alloc_object
                              \* returning and the caller filling the cell
  ret,                        \* the cell alloc_object has just returned
  exit_code,                  \* NotExited, or the status passed to exit()
  heap_cells,                 \* cells ever added to the slab by extend_heap
  finalize_calls,             \* finalize_object calls on a cell since its allocation
  wants_fin,                  \* needs_finalization of the cell's last allocation
  num_free,                   \* value a direct baker_collect call returned last
  collections,                \* number of baker_collect runs so far
  collects_in_row,            \* direct baker_collect calls since the last other operation
  popped,                     \* the pop_root that ran last: [roots, addr], Roots
                              \* before it and its argument; NoPop otherwise
  native,                     \* where the native code of vm.c that builds an
                              \* instruction stands: [at, evaluated, made]
  vm,                         \* the bytecode VM: the objects it works on, the
                              \* global bindings, and the registers and
                              \* arguments of vm_execute
  observed                    \* what the last VM step did, for the properties

gcvars == <<prev, next, color, Active_Heap_Objects, Old_Heap_Objects,
            Next_Free_Object, Finalizable_Objects, Finalizable_Objects_Next,
            current_color, Next_Heap_Extension, heap_cells, finalize_calls,
            num_free, collections>>

vars == <<prev, next, color, type, data, Active_Heap_Objects, Old_Heap_Objects,
          Next_Free_Object, Root_Objects, Finalizable_Objects,
          Finalizable_Objects_Next, current_color, Next_Heap_Extension,
          locals, workload, pc, ret, exit_code, heap_cells, finalize_calls, wants_fin,
          num_free, collections, collects_in_row, popped, native, vm, observed>>

\* the state of the code of src/vm.c
vmvars == <<native, vm, observed>>

\* ------------------------------------------------------------- object types
RefTypes == {"PAIR", "COMPOUND_PROC", "SYNTAX_PROC", "VECTOR", "COMPILED_PROC",
             "COMPILED_SYNTAX_PROC", "META_PROC", "HASH_TABLE"}
LeafTypes == {"FIXNUM", "STRING"}

\* Children with the second field of a two-field variant left unscanned
ChildrenFirstFieldOnly(obj) ==
  CASE type[obj] \in {"PAIR", "COMPILED_PROC", "COMPILED_SYNTAX_PROC", "META_PROC"} ->
         <<data[obj][1]>>
    [] type[obj] \in {"COMPOUND_PROC", "SYNTAX_PROC"} ->
         <<data[obj][1], data[obj][2], data[obj][3]>>
    [] type[obj] \in {"VECTOR", "HASH_TABLE"} -> data[obj]
    [] OTHER -> <<>>

\* The references move_reachable scans in a cell, in scan order.  data holds
\* the payload's references: car,cdr / env,params,body / the elements /
\* bytecode,env / proc,meta / key1,value1,key2,value2,...
Children(obj) ==
  CASE type[obj] = "PAIR" -> <<data[obj][1], data[obj][2]>>
    [] type[obj] \in {"COMPOUND_PROC", "SYNTAX_PROC"} ->
         <<data[obj][1], data[obj][2], data[obj][3]>>
    [] type[obj] = "VECTOR" -> data[obj]
    [] type[obj] \in {"COMPILED_PROC", "COMPILED_SYNTAX_PROC"} ->
         <<data[obj][1], data[obj][2]>>
    [] type[obj] = "META_PROC" -> <<data[obj][1], data[obj][2]>>
    [] type[obj] = "HASH_TABLE" -> data[obj]
    [] OTHER -> <<>>

\* ------------------------------------------------------- doubly linked list
EmptyList == [head |-> NIL, tail |-> NIL, num_objects |-> 0]

\* move_object_to_head without the back link from the old head of dest
move_object_to_head_no_back_link(g, obj, src, dest) ==
  LET unlink_prev(h) == IF h.prev[obj] = NIL
                        THEN [h EXCEPT ![src].head = h.next[obj]]
                        ELSE [h EXCEPT !.next[h.prev[obj]] = h.next[obj]]
      unlink_next(h) == IF h.next[obj] = NIL
                        THEN [h EXCEPT ![src].tail = h.prev[obj]]
                        ELSE [h EXCEPT !.prev[h.next[obj]] = h.prev[obj]]
      count_down(h) == [h EXCEPT ![src].num_objects = @ - 1]
      link_head(h) == IF h[dest].head = NIL
                      THEN [h EXCEPT ![dest].head = obj, ![dest].tail = obj,
                                     !.next[obj] = NIL, !.prev[obj] = NIL]
                      ELSE [h EXCEPT !.prev[obj] = NIL, !.next[obj] = h[dest].head,
                                     ![dest].head = obj]
      count_up(h) == [h EXCEPT ![dest].num_objects = @ + 1]
  IN count_up(link_head(count_down(unlink_next(unlink_prev(g)))))

\* move_object_to_head(obj, src, dest); src and dest name a list of g.  The
\* steps are the statements of the function in order: unlink from src on the
\* prev side, on the next side, src->num_objects--, link at the head of dest,
\* dest->num_objects++.
move_object_to_head(g, obj, src, dest) ==
  LET unlink_prev(h) == IF h.prev[obj] = NIL
                        THEN [h EXCEPT ![src].head = h.next[obj]]
                        ELSE [h EXCEPT !.next[h.prev[obj]] = h.next[obj]]
      unlink_next(h) == IF h.next[obj] = NIL
                        THEN [h EXCEPT ![src].tail = h.prev[obj]]
                        ELSE [h EXCEPT !.prev[h.next[obj]] = h.prev[obj]]
      count_down(h) == [h EXCEPT ![src].num_objects = @ - 1]
      link_head(h) == IF h[dest].head = NIL
                      THEN [h EXCEPT ![dest].head = obj, ![dest].tail = obj,
                                     !.next[obj] = NIL, !.prev[obj] = NIL]
                      ELSE [h EXCEPT !.prev[obj] = NIL, !.next[obj] = h[dest].head,
                                     !.prev[h[dest].head] = obj, ![dest].head = obj]
      count_up(h) == [h EXCEPT ![dest].num_objects = @ + 1]
  IN count_up(link_head(count_down(unlink_next(unlink_prev(g)))))

\* append_to_tail that overwrites the count of dest instead of adding to it
append_to_tail_count_overwritten(g, dest, src) ==
  LET finish(h) == [h EXCEPT ![dest].num_objects = h[src].num_objects,
                             ![src] = EmptyList]
      link(h) == [h EXCEPT !.next[h[dest].tail] = h[src].head,
                           !.prev[h[src].head] = h[dest].tail,
                           ![dest].tail = h[src].tail]
  IN IF g[dest].tail = NIL
     THEN finish([g EXCEPT ![dest].head = g[src].head, ![dest].tail = g[src].tail])
     ELSE IF g[src].head = NIL
     THEN g
     ELSE finish(link(g))

\* append_to_tail(dest, src)
append_to_tail(g, dest, src) ==
  LET finish(h) == [h EXCEPT ![dest].num_objects = @ + h[src].num_objects,
                             ![src] = EmptyList]
      link(h) == [h EXCEPT !.next[h[dest].tail] = h[src].head,
                           !.prev[h[src].head] = h[dest].tail,
                           ![dest].tail = h[src].tail]
  IN IF g[dest].tail = NIL
     THEN finish([g EXCEPT ![dest].head = g[src].head, ![dest].tail = g[src].tail])
     ELSE IF g[src].head = NIL
     THEN g
     ELSE finish(link(g))

\* ---------------------------------------------------------------- stack_set
\* objs holds the entries below top; the array slots at and above top are
\* never read before stack_set_push overwrites them.
make_stack_set(initial_size) == [objs |-> <<>>, top |-> 0, size |-> initial_size]

clear_stack_set(ss) == [ss EXCEPT !.objs = <<>>, !.top = 0]

stack_set_push(ss, value) ==
  LET grown == IF ss.top = ss.size THEN [ss EXCEPT !.size = ss.size * 2] ELSE ss
  IN [grown EXCEPT !.objs = Append(@, value), !.top = @ + 1]

\* the scan loop of stack_set_pop without the store objs[idx] = last
RECURSIVE PopScanNoStore(_, _, _, _, _)
PopScanNoStore(objs, idx, last, done, value) ==
  IF idx >= 0 /\ ~done
  THEN PopScanNoStore(objs, idx - 1, objs[idx + 1], objs[idx + 1] = value, value)
  ELSE [objs |-> objs, done |-> done]

\* The scan loop of stack_set_pop: idx runs downward (0-based), last carries
\* the entry displaced from the slot above.
RECURSIVE PopScan(_, _, _, _, _)
PopScan(objs, idx, last, done, value) ==
  IF idx >= 0 /\ ~done
  THEN PopScan([objs EXCEPT ![idx + 1] = last], idx - 1, objs[idx + 1],
               objs[idx + 1] = value, value)
  ELSE [objs |-> objs, done |-> done]

\* a fallback that fills the slot of the entry found with the top entry
\* instead of shifting the entries above it down
stack_set_pop_moving_top(ss, value) ==
  LET t == ss.top - 1
      below == SubSeq(ss.objs, 1, t)
      found == {i \in 1..t : below[i] = value}
      at == CHOOSE i \in found : \A j \in found : j <= i
  IN IF ss.objs[t + 1] # value
     THEN [ss |-> [ss EXCEPT !.objs = IF found = {} THEN below
                                      ELSE [below EXCEPT ![at] = ss.objs[t + 1]],
                             !.top = t],
           ret |-> IF found = {} THEN 0 ELSE 1]
     ELSE [ss |-> [ss EXCEPT !.objs = below, !.top = t], ret |-> 1]

\* stack_set_pop(ss, value) on a stack with top > 0: the new stack and the
\* returned char.
stack_set_pop(ss, value) ==
  LET t == ss.top - 1
      below == SubSeq(ss.objs, 1, t)
  IN IF ss.objs[t + 1] # value
     THEN LET r == PopScan(below, t - 1, ss.objs[t + 1], FALSE, value)
          IN [ss |-> [ss EXCEPT !.objs = r.objs, !.top = t],
              ret |-> IF r.done THEN 1 ELSE 0]
     ELSE [ss |-> [ss EXCEPT !.objs = below, !.top = t], ret |-> 1]

\* ------------------------------------------------------------- extend_heap
\* &new_heap[i] for the slab whose first cell is base
SlabAddr(base, extension, i) ==
  IF i >= 0 /\ i < extension THEN base + i ELSE DANGLING

RECURSIVE ThreadMiddle(_, _, _, _)
ThreadMiddle(g, base, extension, ii) ==
  IF ii < extension - 1
  THEN ThreadMiddle([g EXCEPT !.next[base + ii] = SlabAddr(base, extension, ii + 1),
                              !.prev[base + ii] = SlabAddr(base, extension, ii - 1),
                              !.color[base + ii] = g.current_color],
                    base, extension, ii + 1)
  ELSE g

extend_heap(g, extension) ==
  LET base == g.heap_cells + 1
      last == base + extension - 1
      first_cell(h) == [h EXCEPT !.prev[base] = NIL,
                                 !.next[base] = SlabAddr(base, extension, 1),
                                 !.color[base] = h.current_color]
      last_cell(h) == [h EXCEPT !.next[last] = h.Active_Heap_Objects.head,
                                !.prev[last] = SlabAddr(base, extension, extension - 2)]
      join(h) == IF h.Active_Heap_Objects.head # NIL
                 THEN [h EXCEPT !.prev[h.Active_Heap_Objects.head] = last]
                 ELSE [h EXCEPT !.Active_Heap_Objects.tail = last]
      finish(h) == [h EXCEPT !.color[last] = h.current_color,
                             !.Active_Heap_Objects.head = base,
                             !.Next_Free_Object = base,
                             !.Active_Heap_Objects.num_objects = @ + extension,
                             !.heap_cells = @ + extension]
  IN finish(join(last_cell(ThreadMiddle(first_cell(g), base, extension, 1))))

\* ---------------------------------------------------------- move_reachable
\* the maybe_move macro
maybe_move(g, obj) ==
  IF g.color[obj] # g.current_color
  THEN [move_object_to_head(g, obj, "Active_Heap_Objects", "Old_Heap_Objects")
          EXCEPT !.color[obj] = g.current_color]
  ELSE g

\* the case of the switch for one cell: maybe_move on each scanned field
RECURSIVE ScanFields(_, _, _)
ScanFields(g, refs, ii) ==
  IF ii > Len(refs) THEN g ELSE ScanFields(maybe_move(g, refs[ii]), refs, ii + 1)

\* the while(scan_iter != NULL) loop
RECURSIVE ScanLoop(_, _)
ScanLoop(g, scan_iter) ==
  LET advance(h) == ScanLoop(h, h.prev[scan_iter])
  IN IF scan_iter = NIL
     THEN g
     ELSE advance(ScanFields(g, Children(scan_iter), 1))

move_reachable(g, root) ==
  LET mark(h) == [h EXCEPT !.color[root] = h.current_color]
      scan(h) == ScanLoop(h, h.Old_Heap_Objects.head)
  IN IF root = NIL THEN g
     ELSE IF g.color[root] = g.current_color THEN g
     ELSE scan(move_object_to_head(mark(g), root, "Active_Heap_Objects",
                                   "Old_Heap_Objects"))

\* finalize_object: the payload memory is released; the call is counted
finalize_object(g, head) == [g EXCEPT !.finalize_calls[head] = @ + 1]

\* ----------------------------------------------------------- baker_collect
\* a color counter that stops at the largest value instead of wrapping
NextColor_saturating(c) == IF c + 1 < ColorModulus THEN c + 1 ELSE c

\* ++current_color on a char
NextColor(c) == (c + 1) % ColorModulus

\* the loop over Root_Objects stopping one entry short of top
RECURSIVE MarkRootsButLast(_, _)
MarkRootsButLast(g, ii) ==
  IF ii < Root_Objects.top - 1
  THEN MarkRootsButLast(move_reachable(g, locals[Root_Objects.objs[ii + 1]]), ii + 1)
  ELSE g

\* the loop over Root_Objects: *next is the pinned variable's current value
RECURSIVE MarkRoots(_, _)
MarkRoots(g, ii) ==
  IF ii < Root_Objects.top
  THEN MarkRoots(move_reachable(g, locals[Root_Objects.objs[ii + 1]]), ii + 1)
  ELSE g

\* the loop over Finalizable_Objects with the color test inverted
RECURSIVE FinalizeLoopInverted(_, _)
FinalizeLoopInverted(g, idx) ==
  IF idx < g.Finalizable_Objects.top
  THEN LET obj == g.Finalizable_Objects.objs[idx + 1]
       IN FinalizeLoopInverted(IF g.color[obj] = g.current_color
                               THEN finalize_object(g, obj)
                               ELSE [g EXCEPT !.Finalizable_Objects_Next =
                                                 stack_set_push(@, obj)],
                               idx + 1)
  ELSE g

\* the loop over Finalizable_Objects
RECURSIVE FinalizeLoop(_, _)
FinalizeLoop(g, idx) ==
  IF idx < g.Finalizable_Objects.top
  THEN LET obj == g.Finalizable_Objects.objs[idx + 1]
       IN FinalizeLoop(IF g.color[obj] # g.current_color
                       THEN finalize_object(g, obj)
                       ELSE [g EXCEPT !.Finalizable_Objects_Next =
                                         stack_set_push(@, obj)],
                       idx + 1)
  ELSE g

\* the swap of the finalizable stacks without clear_stack_set
SwapFinalizableNoClear(g) ==
  [g EXCEPT !.Finalizable_Objects = g.Finalizable_Objects_Next,
            !.Finalizable_Objects_Next = g.Finalizable_Objects]

\* swap the two finalizable stacks and clear the old one
SwapFinalizable(g) ==
  [g EXCEPT !.Finalizable_Objects = g.Finalizable_Objects_Next,
            !.Finalizable_Objects_Next = clear_stack_set(g.Finalizable_Objects)]

\* baker_collect without the ++current_color that precedes the marking
baker_collect_marking_in_old_color(g) ==
  LET advance(h) == [h EXCEPT !.current_color = NextColor(@)]
      finish(h) == [h EXCEPT !.Next_Free_Object = h.Active_Heap_Objects.head,
                             !.num_free = h.Active_Heap_Objects.num_objects,
                             !.collections = @ + 1]
  IN finish(advance(SwapFinalizable(FinalizeLoop(MarkRoots(
       append_to_tail(g, "Active_Heap_Objects", "Old_Heap_Objects"),
       0), 0))))

\* baker_collect up to its first ++current_color: the two lists merged and
\* the color advanced
FirstAdvance(g) ==
  [append_to_tail(g, "Active_Heap_Objects", "Old_Heap_Objects")
     EXCEPT !.current_color = NextColor(@)]

\* baker_collect(); the returned num_free is left in the num_free field
baker_collect(g) ==
  LET advance(h) == [h EXCEPT !.current_color = NextColor(@)]
      finish(h) == [h EXCEPT !.Next_Free_Object = h.Active_Heap_Objects.head,
                             !.num_free = h.Active_Heap_Objects.num_objects,
                             !.collections = @ + 1]
  IN finish(advance(SwapFinalizable(FinalizeLoop(MarkRoots(
       FirstAdvance(g), 0), 0))))

\* ------------------------------------------------------------ alloc_object
\* the heuristic taken over the exact ratio instead of the C quotient
FreedTooFew_exact_ratio(freed, extension) == freed = 0 \/ extension > 2 * freed

\* did the collection free too few cells?
FreedTooFew(freed, extension) == freed = 0 \/ extension \div freed > 2

\* the if(Next_Free_Object == NULL) block
Replenish(g) ==
  LET grow(c) == IF FreedTooFew(c.num_free, c.Next_Heap_Extension)
                 THEN [extend_heap(c, c.Next_Heap_Extension)
                         EXCEPT !.Next_Heap_Extension = @ * HeapGrowthFactor]
                 ELSE c
  IN IF g.Next_Free_Object = NIL THEN grow(baker_collect(g)) ELSE g

\* TakeCell without obj->color = current_color
TakeCellUncolored(g, needs_finalization) ==
  LET obj == g.Next_Free_Object
      push(h) == IF needs_finalization
                 THEN [h EXCEPT !.Finalizable_Objects = stack_set_push(@, obj)]
                 ELSE h
      unlink(h) == [h EXCEPT !.Next_Free_Object = h.next[obj]]
  IN [g |-> unlink(push(g)), obj |-> obj]

\* alloc_object(needs_finalization) once a free cell is at hand: the new
\* collector state and the returned cell
TakeCell(g, needs_finalization) ==
  LET obj == g.Next_Free_Object
      paint(h) == [h EXCEPT !.color[obj] = h.current_color]
      push(h) == IF needs_finalization
                 THEN [h EXCEPT !.Finalizable_Objects = stack_set_push(@, obj)]
                 ELSE h
      unlink(h) == [h EXCEPT !.Next_Free_Object = h.next[obj]]
  IN [g |-> unlink(push(paint(g))), obj |-> obj]

\* ------------------------------------------------------ state as a record
\* the collector's globals and the object headers, as the operators above
\* take and return them
GC ==
  [prev |-> prev, next |-> next, color |-> color,
   Active_Heap_Objects |-> Active_Heap_Objects,
   Old_Heap_Objects |-> Old_Heap_Objects,
   Next_Free_Object |-> Next_Free_Object,
   Finalizable_Objects |-> Finalizable_Objects,
   Finalizable_Objects_Next |-> Finalizable_Objects_Next,
   current_color |-> current_color,
   Next_Heap_Extension |-> Next_Heap_Extension,
   heap_cells |-> heap_cells, finalize_calls |-> finalize_calls,
   num_free |-> num_free, collections |-> collections]

SetGC(g) ==
  /\ prev' = g.prev
  /\ next' = g.next
  /\ color' = g.color
  /\ Active_Heap_Objects' = g.Active_Heap_Objects
  /\ Old_Heap_Objects' = g.Old_Heap_Objects
  /\ Next_Free_Object' = g.Next_Free_Object
  /\ Finalizable_Objects' = g.Finalizable_Objects
  /\ Finalizable_Objects_Next' = g.Finalizable_Objects_Next
  /\ current_color' = g.current_color
  /\ Next_Heap_Extension' = g.Next_Heap_Extension
  /\ heap_cells' = g.heap_cells
  /\ finalize_calls' = g.finalize_calls
  /\ num_free' = g.num_free
  /\ collections' = g.collections

\* the cells from c onward along next, in order
RECURSIVE Walk(_, _, _)
Walk(nxt, c, fuel) ==
  IF c \notin Cells \/ fuel = 0 THEN <<>> ELSE <<c>> \o Walk(nxt, nxt[c], fuel - 1)

SeqRange(s) == {s[i] : i \in 1..Len(s)}

\* the cells alloc_object has yet to hand out
FreeCells == SeqRange(Walk(next, Next_Free_Object, MaxCells + 1))

\* the cells alloc_object has handed out and no collection has reclaimed
LiveCells == (1..heap_cells) \ FreeCells

NoPop == [roots |-> <<>>, addr |-> NIL]

\* vm_execute has not been called
NoVm == [status |-> "none"]
Nothing == [event |-> "none"]

\* no instruction is being built
NotBuilding == [at |-> "none", evaluated |-> {}, made |-> 0]

\* Client programs, by the object types they build and the values of
\* needs_finalization they pass to alloc_object.
Workloads ==
  { [types |-> {"PAIR", "FIXNUM"}, finalization |-> {FALSE}],
    [types |-> {"COMPOUND_PROC", "META_PROC"}, finalization |-> {FALSE}],
    [types |-> {"COMPILED_PROC", "HASH_TABLE"}, finalization |-> {TRUE}],
    [types |-> {"VECTOR"}, finalization |-> {TRUE}],
    [types |-> {"STRING"}, finalization |-> BOOLEAN] }

\* --------------------------------------------------------------- gc_init
\* the state gc_init leaves: empty stacks and lists, then extend_heap
BeforeFirstSlab ==
  [prev |-> [c \in Cells |-> NIL], next |-> [c \in Cells |-> NIL],
   color |-> [c \in Cells |-> 0],
   Active_Heap_Objects |-> EmptyList, Old_Heap_Objects |-> EmptyList,
   Next_Free_Object |-> NIL,
   Finalizable_Objects |-> make_stack_set(InitialStackSize),
   Finalizable_Objects_Next |-> make_stack_set(InitialStackSize),
   current_color |-> 0,
   Next_Heap_Extension |-> InitialHeapExtension,
   heap_cells |-> 0, finalize_calls |-> [c \in Cells |-> 0],
   num_free |-> 0, collections |-> 0]

gc_init ==
  LET reset(h) == [h EXCEPT !.Next_Free_Object = h.Active_Heap_Objects.head]
  IN reset(extend_heap(BeforeFirstSlab, InitialHeapCells))

\* the collector's globals and the object headers are those of g
IsGC(g) ==
  /\ prev = g.prev
  /\ next = g.next
  /\ color = g.color
  /\ Active_Heap_Objects = g.Active_Heap_Objects
  /\ Old_Heap_Objects = g.Old_Heap_Objects
  /\ Next_Free_Object = g.Next_Free_Object
  /\ Finalizable_Objects = g.Finalizable_Objects
  /\ Finalizable_Objects_Next = g.Finalizable_Objects_Next
  /\ current_color = g.current_color
  /\ Next_Heap_Extension = g.Next_Heap_Extension
  /\ heap_cells = g.heap_cells
  /\ finalize_calls = g.finalize_calls
  /\ num_free = g.num_free
  /\ collections = g.collections

Init ==
  /\ IsGC(gc_init)
  /\ Root_Objects = make_stack_set(InitialStackSize)
  /\ type = [c \in Cells |-> "UNINITIALIZED"]
  /\ data = [c \in Cells |-> <<>>]
  /\ locals = [v \in Locals |-> NIL]
  /\ workload \in Workloads
  /\ pc = "idle"
  /\ ret = NIL
  /\ exit_code = NotExited
  /\ wants_fin = [c \in Cells |-> FALSE]
  /\ collects_in_row = 0
  /\ popped = NoPop
  /\ native = NotBuilding
  /\ vm = NoVm
  /\ observed = Nothing

\* ------------------------------------------------------------ reachability
\* The object references a cell holds, by variant: PAIR car and cdr;
\* COMPOUND_PROC and SYNTAX_PROC env, params and body; the elements of a
\* VECTOR; COMPILED_PROC and COMPILED_SYNTAX_PROC bytecode and env; META_PROC
\* proc and meta; the keys and values of a HASH_TABLE.  Other variants hold none.
RefFields(c) ==
  IF type[c] \in RefTypes THEN SeqRange(data[c]) ELSE {}

RECURSIVE Closure(_)
Closure(S) ==
  LET T == S \cup UNION {RefFields(c) : c \in S}
  IN IF T = S THEN S ELSE Closure(T)

\* the objects the entries of Root_Objects point at
RootCells == {locals[Root_Objects.objs[i]] : i \in 1..Len(Root_Objects.objs)} \cap Cells

\* the cells reachable from Roots
Reachable == Closure(RootCells)

OnActive == SeqRange(Walk(next, Active_Heap_Objects.head, MaxCells + 1))
OnOld == SeqRange(Walk(next, Old_Heap_Objects.head, MaxCells + 1))

\* ----------------------------------------------------------------- actions
\* The unreachable cells a collection has just left on Active.  Their payload
\* is dead memory until alloc_object's caller fills it again, and by the
\* pinning discipline no variable of the mutator is used to reach them any
\* more: the model forgets both.
Reclaimed(g) ==
  SeqRange(Walk(g.next, g.Active_Heap_Objects.head, MaxCells + 1)) \ Reachable

Forget(dead) ==
  /\ type' = [c \in Cells |-> IF c \in dead THEN "UNINITIALIZED" ELSE type[c]]
  /\ data' = [c \in Cells |-> IF c \in dead THEN <<>> ELSE data[c]]
  /\ locals' = [v \in Locals |-> IF locals[v] \in dead THEN NIL ELSE locals[v]]

Running == exit_code = NotExited /\ Root_Objects.top >= 0

\* push_root(&locals[root]); the returned *root is not used
push_root(root) ==
  /\ Running /\ pc = "idle"
  /\ Root_Objects' = stack_set_push(Root_Objects, root)
  /\ collects_in_row' = 0
  /\ UNCHANGED <<gcvars, type, data, locals, workload, pc, ret, exit_code, wants_fin>>

\* pop_root acting on what stack_set_pop returned
Popped(r) ==
  /\ Root_Objects' = r.ss
  /\ exit_code' = IF r.ret = 0 THEN ExitCodeGc ELSE NotExited

\* pop_root(&locals[root]).  On an empty stack stack_set_pop reads objs[-1],
\* a word outside the array: the comparison with root may go either way.
pop_root(root) ==
  /\ Running /\ pc = "idle"
  /\ collects_in_row' = 0
  /\ IF Root_Objects.top > 0
     THEN Popped(stack_set_pop(Root_Objects, root))
     ELSE \E found \in BOOLEAN :
            /\ Root_Objects' = [Root_Objects EXCEPT !.top = @ - 1]
            /\ exit_code' = IF found THEN NotExited ELSE ExitCodeGc
  /\ UNCHANGED <<gcvars, type, data, locals, workload, pc, ret, wants_fin>>

\* the allocating client pins one of its variables
Pin(root) ==
  /\ Root_Objects.top < MaxPinned
  /\ push_root(root)
  /\ popped' = NoPop
  /\ UNCHANGED vmvars

\* the allocating client unpins a variable it has pinned, in any order
Unpin(root) ==
  /\ root \in SeqRange(Root_Objects.objs)
  /\ pop_root(root)
  /\ popped' = NoPop
  /\ UNCHANGED vmvars

\* the slab has room for the extension alloc_object would make
RoomToExtend ==
  LET fits(c) == FreedTooFew(c.num_free, c.Next_Heap_Extension)
                   => c.heap_cells + c.Next_Heap_Extension <= MaxCells
  IN Next_Free_Object # NIL \/ fits(baker_collect(GC))

\* alloc_object when no cell is free even after the collection and extension
OutOfMemory(g) ==
  /\ SetGC([g EXCEPT !.num_free = 0])
  /\ exit_code' = ExitCodeGc
  /\ UNCHANGED <<pc, ret, wants_fin>>

\* alloc_object returning the cell t.obj
ReturnCell(t, needs_finalization) ==
  /\ SetGC([t.g EXCEPT !.finalize_calls[t.obj] = 0, !.num_free = 0])
  /\ ret' = t.obj
  /\ wants_fin' = [wants_fin EXCEPT ![t.obj] = needs_finalization]
  /\ pc' = "allocated"
  /\ UNCHANGED exit_code

\* alloc_object from the state g that the collection and extension left
Allocate(g, needs_finalization) ==
  IF g.Next_Free_Object = NIL
  THEN OutOfMemory(g)
  ELSE ReturnCell(TakeCell(g, needs_finalization), needs_finalization)

\* alloc_object(needs_finalization)
AllocObject(needs_finalization) ==
  /\ Running /\ pc = "idle"
  /\ Next_Free_Object = NIL => collections < MaxCollections
  /\ RoomToExtend
  /\ Forget(IF Next_Free_Object = NIL THEN Reclaimed(baker_collect(GC)) ELSE {})
  /\ Allocate(Replenish(GC), needs_finalization)
  /\ collects_in_row' = 0
  /\ popped' = NoPop
  /\ UNCHANGED <<Root_Objects, workload, vmvars>>

\* the payloads the mutator gives a cell of type ty, with references from refs
Payloads(ty, refs) ==
  CASE ty \in {"PAIR", "COMPILED_PROC", "COMPILED_SYNTAX_PROC", "META_PROC"} ->
         [1..2 -> refs]
    [] ty \in {"COMPOUND_PROC", "SYNTAX_PROC"} -> [1..3 -> refs]
    [] ty = "VECTOR" -> UNION {[1..n -> refs] : n \in 0..MaxVectorLen}
    [] ty = "HASH_TABLE" -> UNION {[1..(2 * n) -> refs] : n \in 0..MaxHashEntries}
    [] OTHER -> {<<>>}

\* The caller of alloc_object fills the cell in and keeps it in a variable.
\* The references it stores are those its variables hold.
InitObject(v, ty) ==
  /\ Running /\ pc = "allocated"
  /\ \E payload \in Payloads(ty, {locals[w] : w \in {x \in Locals : locals[x] # NIL}}) :
       /\ type' = [type EXCEPT ![ret] = ty]
       /\ data' = [data EXCEPT ![ret] = payload]
  /\ locals' = [locals EXCEPT ![v] = ret]
  /\ ret' = NIL
  /\ pc' = "idle"
  /\ UNCHANGED <<gcvars, Root_Objects, workload, exit_code, wants_fin,
                 collects_in_row, popped, vmvars>>

\* the collector state becomes g and the cells it reclaimed are forgotten
Collected(g) == SetGC(g) /\ Forget(Reclaimed(g))

\* a direct call of baker_collect()
BakerCollect ==
  /\ Running /\ pc = "idle"
  /\ collections < MaxCollections
  /\ Collected(baker_collect(GC))
  /\ collects_in_row' = IF collects_in_row < 2 THEN collects_in_row + 1 ELSE 2
  /\ popped' = NoPop
  /\ UNCHANGED <<Root_Objects, workload, pc, ret, exit_code, wants_fin, vmvars>>

Next ==
  \/ \E root \in 1..WorkingLocals : Pin(root)
  \/ \E root \in 1..WorkingLocals : Unpin(root)
  \/ \E needs_finalization \in workload.finalization : AllocObject(needs_finalization)
  \/ \E v \in 1..WorkingLocals, ty \in workload.types : InitObject(v, ty)
  \/ BakerCollect

Spec == Init /\ [][Next]_vars

\* ------------------------------------------------- the root stack on its own
\* a client that only pushes and pops, with the pop observed
PushRoot(root) ==
  /\ Root_Objects.top < MaxRoots
  /\ push_root(root)
  /\ popped' = NoPop
  /\ UNCHANGED vmvars

PopRoot(root) ==
  /\ pop_root(root)
  /\ popped' = [roots |-> Root_Objects.objs, addr |-> root]
  /\ UNCHANGED vmvars

NextRoots ==
  \/ \E root \in Locals : PushRoot(root)
  \/ \E root \in Locals : PopRoot(root)

SpecRoots == Init /\ [][NextRoots]_vars

\* ------------------------------------ vm_init building an instruction
\* vm_init fills cc_bytecode with codes[i] = make_instr(name, arg1, arg2),
\* where each argument is the_empty_list or a fresh make_fixnum(..).  The C
\* variables involved are named; their addresses are what push_root takes.
\* the_empty_list and the opcode character (bytecodes[..]) are globals the
\* startup code allocates and pins for good.
InstrGlobals == {"the_empty_list", "bytecodes"}
InstrLocals == InstrGlobals \cup {"arg1", "arg2", "result", "car", "cdr"}

\* size of the first slab and of the first extension in this scenario, the
\* largest slab, and the number of cells earlier code allocated and dropped
InstrHeapCells == 4
MaxInstrCells == 8
MaxGarbage == 2

InstrCells == 1..MaxInstrCells

\* gc_init over the cells of this scenario
instr_gc_init ==
  LET reset(h) == [h EXCEPT !.Next_Free_Object = h.Active_Heap_Objects.head]
      before == [BeforeFirstSlab EXCEPT
                   !.prev = [c \in InstrCells |-> NIL],
                   !.next = [c \in InstrCells |-> NIL],
                   !.color = [c \in InstrCells |-> 0],
                   !.finalize_calls = [c \in InstrCells |-> 0],
                   !.Next_Heap_Extension = InstrHeapCells]
  IN reset(extend_heap(before, InstrHeapCells))

InitInstr ==
  /\ IsGC(instr_gc_init)
  /\ Root_Objects = make_stack_set(InitialStackSize)
  /\ type = [c \in InstrCells |-> "UNINITIALIZED"]
  /\ data = [c \in InstrCells |-> <<>>]
  /\ locals = [v \in InstrLocals |-> NIL]
  /\ workload = [types |-> {"PAIR", "FIXNUM"}, finalization |-> {FALSE}]
  /\ pc = "idle"
  /\ ret = NIL
  /\ exit_code = NotExited
  /\ wants_fin = [c \in InstrCells |-> FALSE]
  /\ collects_in_row = 0
  /\ popped = NoPop
  /\ native = [at |-> "startup", evaluated |-> {}, made |-> 0]
  /\ vm = NoVm
  /\ observed = Nothing

\* the slab has room for the extension alloc_object would make
InstrRoomToExtend ==
  LET fits(c) == FreedTooFew(c.num_free, c.Next_Heap_Extension)
                   => c.heap_cells + c.Next_Heap_Extension <= MaxInstrCells
  IN Next_Free_Object # NIL \/ fits(baker_collect(GC))

\* the caller of alloc_object(0) makes the cell t.obj a ty with the given
\* references and keeps it in the variable dest
InstrFill(t, ty, payload, dest) ==
  /\ SetGC(t.g)
  /\ type' = [type EXCEPT ![t.obj] = ty]
  /\ data' = [data EXCEPT ![t.obj] = payload]
  /\ locals' = [locals EXCEPT ![dest] = t.obj]

\* alloc_object(0) followed by the initialisation of the cell
InstrAlloc(ty, payload, dest) ==
  /\ exit_code = NotExited
  /\ InstrRoomToExtend
  /\ InstrFill(TakeCell(Replenish(GC), FALSE), ty, payload, dest)
  /\ UNCHANGED <<workload, pc, ret, exit_code, wants_fin, collects_in_row, popped,
                 vm, observed>>

\* startup: the_empty_list is allocated and pinned
MakeEmptyList ==
  /\ native.at = "startup"
  /\ InstrAlloc("THE_EMPTY_LIST", <<>>, "the_empty_list")
  /\ Root_Objects' = stack_set_push(Root_Objects, "the_empty_list")
  /\ native' = [native EXCEPT !.at = "bytecodes"]

\* vm_init, generate_bytecodes: make_character and push_root(&bytecodes[..])
MakeBytecode ==
  /\ native.at = "bytecodes"
  /\ InstrAlloc("CHARACTER", <<>>, "bytecodes")
  /\ Root_Objects' = stack_set_push(Root_Objects, "bytecodes")
  /\ native' = [native EXCEPT !.at = "earlier"]

\* code that ran before allocated a cell and dropped it
EarlierGarbage ==
  /\ native.at = "earlier"
  /\ native.made < MaxGarbage
  /\ InstrAlloc("FIXNUM", <<>>, "car")
  /\ native' = [native EXCEPT !.made = @ + 1]
  /\ UNCHANGED Root_Objects

\* vm_init reaches codes[i] = make_instr(name, .., ..)
BeginMakeInstr ==
  /\ native.at = "earlier"
  /\ native' = [native EXCEPT !.at = "arguments", !.made = 0]
  /\ locals' = [locals EXCEPT !["car"] = NIL]
  /\ UNCHANGED <<gcvars, type, data, Root_Objects, workload, pc, ret, exit_code,
                 wants_fin, collects_in_row, popped, vm, observed>>

\* an argument of the call that is the_empty_list; C leaves the order in
\* which the two arguments are evaluated open
EvalEmptyList(arg) ==
  /\ native.at = "arguments"
  /\ arg \notin native.evaluated
  /\ locals' = [locals EXCEPT ![arg] = locals["the_empty_list"]]
  /\ native' = [native EXCEPT !.evaluated = @ \cup {arg}]
  /\ UNCHANGED <<gcvars, type, data, Root_Objects, workload, pc, ret, exit_code,
                 wants_fin, collects_in_row, popped, vm, observed>>

\* an argument of the call that is make_fixnum(..): the call is entered
EvalMakeFixnum(arg) ==
  /\ native.at = "arguments"
  /\ arg \notin native.evaluated
  /\ native' = [native EXCEPT !.at = "make_fixnum " \o arg]
  /\ UNCHANGED <<gcvars, type, data, locals, Root_Objects, workload, pc, ret,
                 exit_code, wants_fin, collects_in_row, popped, vm, observed>>

\* make_fixnum: alloc_object(0), the cell becomes a FIXNUM and is returned
MakeFixnum(arg) ==
  /\ native.at = "make_fixnum " \o arg
  /\ InstrAlloc("FIXNUM", <<>>, arg)
  /\ native' = [native EXCEPT !.at = "arguments", !.evaluated = @ \cup {arg}]
  /\ UNCHANGED Root_Objects

\* make_instr up to its first cons: sym needs no allocation (the opcode
\* symbols are interned), result = the_empty_list, push_root(&result)
EnterMakeInstr ==
  /\ native.at = "arguments"
  /\ native.evaluated = {"arg1", "arg2"}
  /\ locals' = [locals EXCEPT !["result"] = locals["the_empty_list"]]
  /\ Root_Objects' = stack_set_push(Root_Objects, "result")
  /\ native' = [native EXCEPT !.at = "cons"]
  /\ UNCHANGED <<gcvars, type, data, workload, pc, ret, exit_code, wants_fin,
                 collects_in_row, popped, vm, observed>>

\* the first argument of the (made + 1)-th cons of make_instr
ConsedNext == <<"arg2", "arg1", "bytecodes">>

\* cons(car, cdr) is entered from result = cons(x, result): the parameters
\* are copies of the arguments, and cons pins both
ConsEnter ==
  /\ native.at = "cons"
  /\ native.made < Len(ConsedNext)
  /\ locals' = [locals EXCEPT !["car"] = locals[ConsedNext[native.made + 1]],
                              !["cdr"] = locals["result"]]
  /\ Root_Objects' = stack_set_push(stack_set_push(Root_Objects, "car"), "cdr")
  /\ native' = [native EXCEPT !.at = "cons alloc"]
  /\ UNCHANGED <<gcvars, type, data, workload, pc, ret, exit_code, wants_fin,
                 collects_in_row, popped, vm, observed>>

\* cons: alloc_object(0), the cell becomes the PAIR (car . cdr); it is
\* returned and assigned to result
ConsAlloc ==
  /\ native.at = "cons alloc"
  /\ InstrAlloc("PAIR", <<locals["car"], locals["cdr"]>>, "result")
  /\ native' = [native EXCEPT !.at = "cons return"]
  /\ UNCHANGED Root_Objects

\* cons: pop_root(&cdr); pop_root(&car)
ConsReturn ==
  /\ native.at = "cons return"
  /\ Root_Objects' = stack_set_pop(stack_set_pop(Root_Objects, "cdr").ss, "car").ss
  /\ native' = [native EXCEPT !.at = "cons", !.made = @ + 1]
  /\ UNCHANGED <<gcvars, type, data, locals, workload, pc, ret, exit_code,
                 wants_fin, collects_in_row, popped, vm, observed>>

\* make_instr: pop_root(&result); return result
LeaveMakeInstr ==
  /\ native.at = "cons"
  /\ native.made = Len(ConsedNext)
  /\ Root_Objects' = stack_set_pop(Root_Objects, "result").ss
  /\ native' = [native EXCEPT !.at = "made"]
  /\ UNCHANGED <<gcvars, type, data, locals, workload, pc, ret, exit_code,
                 wants_fin, collects_in_row, popped, vm, observed>>

NextInstr ==
  \/ MakeEmptyList
  \/ MakeBytecode
  \/ EarlierGarbage
  \/ BeginMakeInstr
  \/ \E arg \in {"arg1", "arg2"} : EvalEmptyList(arg)
  \/ \E arg \in {"arg1", "arg2"} : EvalMakeFixnum(arg)
  \/ \E arg \in {"arg1", "arg2"} : MakeFixnum(arg)
  \/ EnterMakeInstr
  \/ ConsEnter
  \/ ConsAlloc
  \/ ConsReturn
  \/ LeaveMakeInstr

SpecInstr == InitInstr /\ [][NextInstr]_vars

\* ------------------------------------------------------------ the bytecode VM
\* The objects the VM works on are the entries of vm.objects; the address of
\* an object is its index, and a new object takes the next index.  WILD is a
\* pointer that is the address of no object.
WILD == 0 - 1

\* the singletons made at startup, then the fixnums that occur as operands
\* in the bytecode, then the procedures of the programs
the_empty_list == 1
false == 2
the_empty_vector == 3
error_sym == 4
plus_proc == 5
FirstFixnum == 6
FixnumConstants == <<0 - 1, 0, 1, 2, 3, 4, 5, 6, 7, 8, 9, 10, 11, 12, 42, 100>>

\* the address of the constant fixnum n
Fix(n) == FirstFixnum - 1 + CHOOSE i \in 1..Len(FixnumConstants) : FixnumConstants[i] = n

\* --- bounds of the VM runs
MaxVmObjects == 96
MaxAllocPerStep == 6
StackCapacity == 4
MaxTailCalls == 6

\* --- accessors (types.h, types.c)
IsObject(m, a) == a \in 1..Len(m.objects)
TypeOf(m, a) == IF IsObject(m, a) THEN m.objects[a].type ELSE "WILD"
is_pair(m, a) == TypeOf(m, a) = "PAIR"
is_vector(m, a) == TypeOf(m, a) = "VECTOR"
is_fixnum(m, a) == TypeOf(m, a) = "FIXNUM"
is_compiled_proc(m, a) == TypeOf(m, a) = "COMPILED_PROC"
is_compiled_syntax_proc(m, a) == TypeOf(m, a) = "COMPILED_SYNTAX_PROC"
is_primitive_proc(m, a) == TypeOf(m, a) = "PRIMITIVE_PROC"
is_meta(m, a) == TypeOf(m, a) = "META_PROC"
is_the_empty_list(a) == a = the_empty_list
is_falselike(a) == a = false

car(m, a) == IF is_pair(m, a) THEN m.objects[a].car ELSE WILD
cdr(m, a) == IF is_pair(m, a) THEN m.objects[a].cdr ELSE WILD
VARRAY(m, a) == IF is_vector(m, a) THEN m.objects[a].array ELSE <<>>
VSIZE(m, a) == Len(VARRAY(m, a))
LONG(m, a) == IF is_fixnum(m, a) THEN m.objects[a].value ELSE 0
CENV(m, a) == m.objects[a].env
BYTECODE(m, a) == m.objects[a].bytecode
METAPROC(m, a) == m.objects[a].proc

\* --- constructors (types.c); the new object is at NewObject(m)
NewObject(m) == Len(m.objects) + 1
Made(m, object) == [m EXCEPT !.objects = Append(@, object)]
cons(m, a, d) == Made(m, [type |-> "PAIR", car |-> a, cdr |-> d])
make_vector(m, fill, size) ==
  Made(m, [type |-> "VECTOR", array |-> [i \in 1..size |-> fill]])
make_fixnum(m, value) == Made(m, [type |-> "FIXNUM", value |-> value])
make_compiled_proc(m, bytecode, env) ==
  Made(m, [type |-> "COMPILED_PROC", bytecode |-> bytecode, env |-> env])
set_car(m, pair, a) == [m EXCEPT !.objects[pair].car = a]
set_cdr(m, pair, d) == [m EXCEPT !.objects[pair].cdr = d]

\* the C code has run into undefined behaviour: anything may follow
Undefined(m) == [m EXCEPT !.status = "undefined"]

\* the rest of an opcode, skipped once vm_execute has returned or gone wrong
Then(m, rest(_)) == IF m.status = "running" THEN rest(m) ELSE m

\* --- the value stack
\* the size vector_push gives a full vector: the double old_size * 1.8,
\* converted to long
GrownSize(old_size) == (old_size * 18) \div 10

vector_push(m, stack, thing, top) ==
  LET grow(h) ==
        IF top = VSIZE(h, stack)
        THEN [h EXCEPT !.objects[stack].array =
                @ \o [i \in 1..(GrownSize(Len(@)) - Len(@)) |-> the_empty_list]]
        ELSE h
      store(h) ==
        IF top >= 0 /\ top < VSIZE(h, stack)
        THEN [h EXCEPT !.objects[stack].array[top + 1] = thing]
        ELSE Undefined(h)
  IN IF is_vector(m, stack) THEN store(grow(m)) ELSE Undefined(m)

\* VARRAY(stack)[top - 1], the value vector_pop returns
Top(m) == VARRAY(m, m.stack)[m.stack_top]

vector_pop(m, stack, top) ==
  IF is_vector(m, stack) /\ top >= 1 /\ top <= VSIZE(m, stack)
  THEN [m EXCEPT !.objects[stack].array[top] = the_empty_list]
  ELSE Undefined(m)

\* VPUSH(thing, stack, stack_top)
VPUSH(m, thing) ==
  LET pushed(h) == [h EXCEPT !.stack_top = @ + 1]
  IN Then(vector_push(m, m.stack, thing, m.stack_top), pushed)

\* VPOP(var, stack, stack_top) for a C variable the opcode does not use again
VPOP(m) ==
  LET popped_one(h) == [h EXCEPT !.stack_top = @ - 1]
  IN Then(vector_pop(m, m.stack, m.stack_top), popped_one)

\* VPOP(top, stack, stack_top)
VPOP_top(m) ==
  LET popped_one(h) == [h EXCEPT !.stack_top = @ - 1, !.top = Top(m)]
  IN Then(vector_pop(m, m.stack, m.stack_top), popped_one)

\* --- leaving vm_execute
\* push_root(&name) by vm_execute
vm_push_root(m, name) == [m EXCEPT !.roots = stack_set_push(@, name)]

\* pop_root(&name) by vm_execute: scanned records that the address was not
\* on top of Roots; a pop that does not find it exits, and one on an empty
\* stack reads objs[-1]
vm_pop_root(m, name) ==
  IF m.roots.top > 0
  THEN [m EXCEPT !.roots = stack_set_pop(@, name).ss,
                 !.scanned = @ \/ m.roots.objs[m.roots.top] # name,
                 !.status = IF stack_set_pop(m.roots, name).ret = 0
                            THEN "exited" ELSE @]
  ELSE Undefined(m)

\* VM_RETURN unpinning fn, env and top in the order they were pinned
VM_RETURN_popping_in_push_order(m, obj) ==
  LET pop_env(h) == vm_pop_root(h, "env")
      pop_top(h) == vm_pop_root(h, "top")
      leave(h) == [h EXCEPT !.status = "returned", !.result = obj]
  IN Then(Then(Then(vm_pop_root(m, "fn"), pop_env), pop_top), leave)

VM_RETURN(m, obj) ==
  LET pop_env(h) == vm_pop_root(h, "env")
      pop_fn(h) == vm_pop_root(h, "fn")
      leave(h) == [h EXCEPT !.status = "returned", !.result = obj]
  IN Then(Then(Then(vm_pop_root(m, "top"), pop_env), pop_fn), leave)

\* vm_fn_begin: VM_ASSERT(is_compiled_proc(fn) || is_compiled_syntax_proc(fn))
vm_fn_begin(m) ==
  IF is_compiled_proc(m, m.fn) \/ is_compiled_syntax_proc(m, m.fn)
  THEN m
  ELSE VM_RETURN(m, error_sym)

RETURN_OPCODE_INSTRUCTIONS(m) ==
  LET val == Top(m)
      ret_addr(h) == Top(h)
      restore(h, ra) ==
        IF /\ is_pair(h, ra) /\ is_pair(h, cdr(h, ra))
           /\ is_fixnum(h, car(h, ra)) /\ LONG(h, car(h, ra)) >= 0
        THEN vm_fn_begin(VPUSH([h EXCEPT !.ret_addr = ra,
                                         !.fn = car(h, cdr(h, ra)),
                                         !.pc = LONG(h, car(h, ra)),
                                         !.env = cdr(h, cdr(h, ra))], val))
        ELSE Undefined(h)
      resume(h) == Then(VPOP(h), LAMBDA g : restore(g, ret_addr(h)))
      leave(h) == VM_RETURN(h, val)
  IN IF m.stack_top = m.initial_top + 1
     THEN Then(VPOP(m), leave)
     ELSE Then(VPOP(m), resume)

\* --- the opcodes: the case blocks of vm_execute's switch.  m is the machine
\* after instr = codes[pc++]
EnvHasFrame(m) == is_pair(m, m.env) /\ is_vector(m, car(m, m.env))

\* "resize the top frame if we need to"
WithFrame(m, size) ==
  IF size > VSIZE(m, car(m, m.env))
  THEN set_car(make_vector(m, the_empty_list, size), m.env, NewObject(m))
  ELSE m

Min(a, b) == IF a < b THEN a ELSE b

\* for(ii = ..; ii >= 0; --ii) { VPOP(top, stack, stack_top); vdata[ii] = top; }
RECURSIVE PopIntoFrame(_, _, _)
PopIntoFrame(m, vector, ii) ==
  LET store(h) ==
        IF ii < VSIZE(h, vector)
        THEN [h EXCEPT !.objects[vector].array[ii + 1] = h.top]
        ELSE Undefined(h)
      rest(h) == PopIntoFrame(h, vector, ii - 1)
  IN IF ii < 0 THEN m ELSE Then(Then(VPOP_top(m), store), rest)

\* args copying the arguments into the frame without popping them
args_leaving_arguments(m, instr) ==
  LET num_args == LONG(m, instr.arg1)
      copy(h) ==
        [h EXCEPT !.objects[car(h, h.env)].array =
           [ii \in 1..Len(@) |->
              IF ii <= num_args THEN VARRAY(h, h.stack)[h.stack_top - num_args + ii]
              ELSE @[ii]]]
  IN IF m.n_args # num_args THEN VM_RETURN(m, error_sym)
     ELSE IF ~EnvHasFrame(m) \/ m.stack_top < num_args THEN Undefined(m)
     ELSE copy(WithFrame(m, num_args))

args(m, instr) ==
  LET num_args == LONG(m, instr.arg1)
      fill(h) == PopIntoFrame(h, car(h, h.env), num_args - 1)
  IN IF m.n_args # num_args THEN VM_RETURN(m, error_sym)
     ELSE IF ~EnvHasFrame(m) THEN Undefined(m)
     ELSE fill(WithFrame(m, num_args))

\* for(ii = 0; ii < n_args - req_args; ++ii)
\*   { VPOP(top, ..); vdata[array_size - 1] = cons(top, vdata[array_size - 1]); }
RECURSIVE ConsExcess(_, _, _, _)
ConsExcess(m, vector, last, count) ==
  LET consed(h) ==
        [cons(h, h.top, VARRAY(h, vector)[last])
           EXCEPT !.objects[vector].array[last] = NewObject(h)]
      rest(h) == ConsExcess(h, vector, last, count - 1)
  IN IF count <= 0 THEN m ELSE Then(Then(VPOP_top(m), consed), rest)

\* argsdot popping the required arguments before it conses the excess ones
argsdot_required_first(m, instr) ==
  LET req_args == LONG(m, instr.arg1)
      array_size == req_args + 1
      clear(h) ==
        [h EXCEPT !.objects[car(h, h.env)].array[array_size] = the_empty_list]
      excess(h) == ConsExcess(h, car(h, h.env), array_size, h.n_args - req_args)
      required(h) == PopIntoFrame(h, car(h, h.env), req_args - 1)
  IN IF ~(m.n_args >= req_args) THEN VM_RETURN(m, error_sym)
     ELSE IF ~EnvHasFrame(m) THEN Undefined(m)
     ELSE Then(required(clear(WithFrame(m, array_size))), excess)

argsdot(m, instr) ==
  LET req_args == LONG(m, instr.arg1)
      array_size == req_args + 1
      clear(h) ==
        [h EXCEPT !.objects[car(h, h.env)].array[array_size] = the_empty_list]
      excess(h) == ConsExcess(h, car(h, h.env), array_size, h.n_args - req_args)
      required(h) == PopIntoFrame(h, car(h, h.env), req_args - 1)
  IN IF ~(m.n_args >= req_args) THEN VM_RETURN(m, error_sym)
     ELSE IF ~EnvHasFrame(m) THEN Undefined(m)
     ELSE Then(excess(clear(WithFrame(m, array_size))), required)

fjump(m, instr) ==
  LET branch(h) ==
        IF is_falselike(h.top) THEN [h EXCEPT !.pc = LONG(h, instr.arg1)] ELSE h
  IN Then(VPOP_top(m), branch)

tjump(m, instr) ==
  LET branch(h) ==
        IF ~is_falselike(h.top) THEN [h EXCEPT !.pc = LONG(h, instr.arg1)] ELSE h
  IN Then(VPOP_top(m), branch)

jump(m, instr) == [m EXCEPT !.pc = LONG(m, instr.arg1)]

fn(m, instr) ==
  LET push(h) == VPUSH(h, NewObject(m))
      unpin(h) == vm_pop_root(h, "new_fn")
  IN Then(Then(vm_push_root(make_compiled_proc(m, BYTECODE(m, instr.arg1), m.env),
                            "new_fn"),
               push), unpin)

\* "unwrap meta"
Unwrapped(m) == IF is_meta(m, m.top) THEN [m EXCEPT !.top = METAPROC(m, m.top)] ELSE m

\* the primitive + of the host, on the window stack[stack_top - n_args ..
\* stack_top): a fresh fixnum
RECURSIVE SumOf(_, _, _)
SumOf(m, from, to) ==
  IF from > to THEN 0
  ELSE LONG(m, VARRAY(m, m.stack)[from]) + SumOf(m, from + 1, to)

plus(m, n_args) == make_fixnum(m, SumOf(m, m.stack_top - n_args + 1, m.stack_top))

\* for(ii = 0; ii < args_for_call; ++ii) { VPOP(temp, stack, stack_top); }
RECURSIVE Unwind(_, _)
Unwind(m, count) ==
  LET rest(h) == Unwind(h, count - 1)
  IN IF count <= 0 THEN m ELSE Then(VPOP(m), rest)

\* the is_primitive_proc branch of fcallj and callj
CallPrimitive(m) ==
  LET called(h) == [plus(h, h.args_for_call) EXCEPT !.top = NewObject(h)]
      unwind(h) == Unwind(h, h.args_for_call)
      push(h) == VPUSH(h, h.top)
      unpin(h) == vm_pop_root(h, "pfn")
  IN IF /\ is_vector(m, m.stack)
        /\ m.args_for_call >= 0
        /\ m.stack_top - m.args_for_call >= 0
        /\ m.stack_top <= VSIZE(m, m.stack)
     THEN Then(Then(Then(unwind(called(vm_push_root(m, "pfn"))), push), unpin),
               RETURN_OPCODE_INSTRUCTIONS)
     ELSE Undefined(m)

\* the final else of fcallj and callj: VM_ASSERT(0, "don't know how to invoke")
Invoke(m, compiled(_)) ==
  IF is_compiled_proc(m, m.top) \/ is_compiled_syntax_proc(m, m.top)
  THEN compiled(m)
  ELSE IF is_primitive_proc(m, m.top) THEN CallPrimitive(m)
  ELSE VM_RETURN(m, error_sym)

\* while(!is_the_empty_list(top))
\*   { VPUSH(car(top), ..); top = cdr(top); ++args_for_call; }
RECURSIVE Splat(_)
Splat(m) ==
  LET rest(h) == Splat([h EXCEPT !.top = cdr(h, h.top), !.args_for_call = @ + 1])
  IN IF is_the_empty_list(m.top) THEN m
     ELSE IF ~is_pair(m, m.top) THEN Undefined(m)
     ELSE Then(VPUSH(m, car(m, m.top)), rest)

\* callj entering the callee in a new env cons around the current frame
callj_consing_env(m, instr) ==
  LET call(h) == Unwrapped([h EXCEPT !.args_for_call = LONG(h, instr.arg1)])
      expand(h, target_fn) ==
        LET put_back(g) == [g EXCEPT !.top = target_fn]
        IN Then(Then(VPOP_top([h EXCEPT !.args_for_call = 0]), Splat), put_back)
      apply(h) == IF h.args_for_call = 0 - 1 THEN expand(h, h.top) ELSE h
      consed(h) ==
        vm_fn_begin([cons(h, car(h, h.env), CENV(h, h.top))
                       EXCEPT !.fn = h.top, !.pc = 0, !.n_args = h.args_for_call,
                              !.env = NewObject(h)])
      compiled_or_not(h) == Invoke(h, consed)
      invoke(h) == Then(apply(call(h)), compiled_or_not)
  IN Then(VPOP_top(m), invoke)

callj(m, instr) ==
  LET call(h) == Unwrapped([h EXCEPT !.args_for_call = LONG(h, instr.arg1)])
      expand(h, target_fn) ==
        LET put_back(g) == vm_pop_root([g EXCEPT !.top = target_fn], "target_fn")
        IN Then(Then(VPOP_top(vm_push_root([h EXCEPT !.args_for_call = 0],
                                           "target_fn")),
                     Splat), put_back)
      apply(h) == IF h.args_for_call = 0 - 1 THEN expand(h, h.top) ELSE h
      reuse(h) ==
        IF is_pair(h, h.env)
        THEN vm_fn_begin(set_cdr([h EXCEPT !.fn = h.top, !.pc = 0,
                                           !.n_args = h.args_for_call],
                                 h.env, CENV(h, h.top)))
        ELSE Undefined(h)
      compiled_or_not(h) == Invoke(h, reuse)
      invoke(h) == Then(apply(call(h)), compiled_or_not)
  IN Then(VPOP_top(m), invoke)

\* fcallj entering the callee the way callj does: in the caller's env cons
fcallj_reusing_env(m, instr) == callj(m, instr)

fcallj(m, instr) ==
  LET call(h) == Unwrapped([h EXCEPT !.args_for_call = LONG(h, instr.arg1)])
      newframe(h) ==
        make_vector([h EXCEPT !.fn = h.top, !.pc = 0, !.n_args = h.args_for_call,
                              !.env = CENV(h, h.top)],
                    the_empty_list, h.args_for_call + 1)
      fresh(h) == [cons(h, Len(h.objects), h.env) EXCEPT !.env = NewObject(h)]
      unpin(h) == vm_pop_root(h, "newframe")
      compiled(h) == vm_fn_begin(unpin(fresh(vm_push_root(newframe(h), "newframe"))))
      invoke(h) == Invoke(call(h), compiled)
  IN Then(VPOP_top(m), invoke)

\* next = env; while(env_num-- > 0) next = cdr(next);
RECURSIVE EnvAt(_, _, _)
EnvAt(m, nxt, env_num) ==
  IF env_num > 0 THEN EnvAt(m, cdr(m, nxt), env_num - 1) ELSE nxt

\* VARRAY(car(next))[idx] is a slot of a frame
SlotExists(m, frame, idx) == is_vector(m, frame) /\ idx >= 0 /\ idx < VSIZE(m, frame)

lvar(m, instr) ==
  LET frame == car(m, EnvAt(m, m.env, LONG(m, instr.arg1)))
      idx == LONG(m, instr.arg2)
  IN IF SlotExists(m, frame, idx)
     THEN VPUSH(m, VARRAY(m, frame)[idx + 1])
     ELSE Undefined(m)

lset(m, instr) ==
  LET frame == car(m, EnvAt(m, m.env, LONG(m, instr.arg1)))
      idx == LONG(m, instr.arg2)
  IN IF SlotExists(m, frame, idx) /\ SlotExists(m, m.stack, m.stack_top - 1)
     THEN [m EXCEPT !.objects[frame].array[idx + 1] = Top(m)]
     ELSE Undefined(m)

\* lookup_global_value is the host's; a symbol without a binding is not
\* looked up by the programs below
gvar(m, instr) ==
  LET push(h) == VPUSH(h, m.globals[instr.arg1])
      unpin(h) == vm_pop_root(h, "var")
  IN IF instr.arg1 \in DOMAIN m.globals
     THEN Then(Then(vm_push_root(m, "var"), push), unpin)
     ELSE Undefined(m)

gset(m, instr) ==
  IF SlotExists(m, m.stack, m.stack_top - 1)
  THEN [m EXCEPT !.globals =
          [sym \in DOMAIN @ \cup {instr.arg1} |->
             IF sym = instr.arg1 THEN Top(m) ELSE @[sym]]]
  ELSE Undefined(m)

\* car_of_vector is what car() yields for the VECTOR that stack is
setcc(m, car_of_vector) ==
  LET new_stack_top(h) == Top(h)
      replace(h, top_object) ==
        IF is_fixnum(h, top_object)
        THEN [h EXCEPT !.stack = IF is_pair(h, h.stack) THEN car(h, h.stack)
                                 ELSE car_of_vector,
                       !.stack_top = LONG(h, top_object)]
        ELSE Undefined(h)
      second(h) ==
        LET set(g) == replace(g, new_stack_top(h))
        IN Then(VPOP(h), set)
  IN Then(VPOP(m), second)

cc(m) ==
  LET cc_env == NewObject(m)
      new_stack == cc_env + 1
      made ==
        << [type |-> "VECTOR", array |-> <<new_stack, new_stack + 1>>],
           [type |-> "VECTOR",
            array |-> [idx \in 1..VSIZE(m, m.stack) |->
                         IF idx <= m.stack_top THEN VARRAY(m, m.stack)[idx]
                         ELSE the_empty_list]],
           [type |-> "FIXNUM", value |-> m.stack_top],
           [type |-> "PAIR", car |-> cc_env, cdr |-> the_empty_list],
           [type |-> "COMPILED_PROC", bytecode |-> "cc_bytecode",
            env |-> cc_env + 3] >>
      pin(h) == vm_push_root(vm_push_root(h, "cc_env"), "new_stack")
      unpin(h) == vm_pop_root(h, "cc_env")
      push(h) == VPUSH(h, cc_env + 4)
  IN IF is_vector(m, m.stack) /\ m.stack_top <= VSIZE(m, m.stack)
     THEN Then(Then(vm_pop_root(pin([m EXCEPT !.objects = @ \o made]), "new_stack"),
                    unpin), push)
     ELSE Undefined(m)

pop(m) == VPOP_top(m)

save(m, instr) ==
  LET pin(h) == vm_push_root(h, "ret_addr")
      consed(h) == cons(h, instr.arg1, NewObject(m))
      push(h) == VPUSH(h, NewObject(m) + 1)
      unpin(h) == vm_pop_root(h, "ret_addr")
  IN Then(Then(consed(pin(cons(m, m.fn, m.env))), push), unpin)

const(m, instr) == VPUSH(m, instr.arg1)

\* default: VM_ASSERT(0, "strange opcode")
strange_opcode(m) == VM_RETURN(m, error_sym)

\* vm_begin: if(pc >= num_codes) VM_ASSERT(false, "pc flew off the end of memory")
pc_flew_off(m) == VM_RETURN(m, error_sym)

\* --- programs: what the compiler hands to the VM
\* make_instr(name, arg1, arg2); an absent operand is the_empty_list
Instr2(op, arg1, arg2) == [op |-> op, arg1 |-> arg1, arg2 |-> arg2]
Instr1(op, arg1) == Instr2(op, arg1, the_empty_list)
Instr0(op) == Instr2(op, the_empty_list, the_empty_list)

\* the procedures the programs are made of, in the order of their addresses
ProcNames ==
  << "main_call", "callee", "tail", "main_direct", "ident",
     "f", "g", "main_jump", "main_self", "lam_const",
     "main_cc42", "lam_k42", "main_cc5", "lam_k5",
     "main_11", "lam_set", "main_k100",
     "dot0", "dot1", "dot2", "main_dot", "main_apply",
     "bad_opcode", "bad_end", "bad_callj", "bad_fcallj", "bad_args",
     "main_closure", "lam_x" >>

FirstProc == FirstFixnum + Len(FixnumConstants)
Proc(name) == FirstProc - 1 + CHOOSE i \in 1..Len(ProcNames) : ProcNames[i] = name

\* f is bound to a META_PROC around its procedure
f_meta == FirstProc + Len(ProcNames)
the_stack == f_meta + 1

Bytecode ==
  [ \* (begin 1 (set! r (callee 2 3))), callee tail-calls tail, tail
    \* tail-calls the primitive +
    main_call |->
      << Instr1("const", Fix(1)), Instr1("save", Fix(6)),
         Instr1("const", Fix(2)), Instr1("const", Fix(3)),
         Instr1("gvar", "callee"), Instr1("fcallj", Fix(2)),
         Instr1("gset", "r"), Instr0("pop"), Instr0("return") >>,
    callee |->
      << Instr1("args", Fix(2)), Instr2("lvar", Fix(0), Fix(0)),
         Instr2("lvar", Fix(0), Fix(1)), Instr1("gvar", "tail"),
         Instr1("callj", Fix(2)) >>,
    tail |->
      << Instr1("args", Fix(2)), Instr2("lvar", Fix(0), Fix(1)),
         Instr2("lvar", Fix(0), Fix(0)), Instr1("gvar", "+"),
         Instr1("callj", Fix(2)) >>,
    \* (ident 5)
    main_direct |->
      << Instr1("save", Fix(4)), Instr1("const", Fix(5)),
         Instr1("gvar", "ident"), Instr1("fcallj", Fix(1)),
         Instr0("return") >>,
    ident |->
      << Instr1("args", Fix(1)), Instr2("lvar", Fix(0), Fix(0)),
         Instr0("return") >>,
    \* (define (f x) (g x)) (define (g x) (f x))
    f |->
      << Instr1("args", Fix(1)), Instr2("lvar", Fix(0), Fix(0)),
         Instr1("gvar", "g"), Instr1("callj", Fix(1)) >>,
    g |->
      << Instr1("args", Fix(1)), Instr2("lvar", Fix(0), Fix(0)),
         Instr1("gvar", "f"), Instr1("callj", Fix(1)) >>,
    \* branches and an assignment to a local variable
    main_jump |->
      << Instr1("args", Fix(1)), Instr1("const", false),
         Instr1("fjump", Fix(4)), Instr0("return"),
         Instr1("const", Fix(10)), Instr2("lset", Fix(0), Fix(0)),
         Instr1("tjump", Fix(8)), Instr0("return"),
         Instr1("jump", Fix(10)), Instr0("return"),
         Instr2("lvar", Fix(0), Fix(0)), Instr0("return") >>,
    \* ((lambda () 5)): the callee captured the env it is tail-called in
    main_self |-> << Instr1("fn", Proc("lam_const")), Instr1("callj", Fix(0)) >>,
    lam_const |-> << Instr1("args", Fix(0)), Instr1("const", Fix(5)),
                     Instr0("return") >>,
    \* (call/cc (lambda (k) (k 42)))
    main_cc42 |->
      << Instr1("save", Fix(4)), Instr0("cc"), Instr1("fn", Proc("lam_k42")),
         Instr1("fcallj", Fix(1)), Instr0("return") >>,
    lam_k42 |->
      << Instr1("args", Fix(1)), Instr1("const", Fix(42)),
         Instr2("lvar", Fix(0), Fix(0)), Instr1("callj", Fix(1)) >>,
    \* (call/cc (lambda (k) (+ 1 (k 5))))
    main_cc5 |->
      << Instr1("save", Fix(4)), Instr0("cc"), Instr1("fn", Proc("lam_k5")),
         Instr1("fcallj", Fix(1)), Instr0("return") >>,
    lam_k5 |->
      << Instr1("args", Fix(1)), Instr1("const", Fix(1)),
         Instr1("save", Fix(6)), Instr1("const", Fix(5)),
         Instr2("lvar", Fix(0), Fix(0)), Instr1("fcallj", Fix(1)),
         Instr1("gvar", "+"), Instr1("callj", Fix(2)) >>,
    \* (+ 1 (call/cc (lambda (c) (set! k c) 10)))
    main_11 |->
      << Instr1("const", Fix(1)), Instr1("save", Fix(5)), Instr0("cc"),
         Instr1("fn", Proc("lam_set")), Instr1("fcallj", Fix(1)),
         Instr1("gvar", "+"), Instr1("callj", Fix(2)) >>,
    lam_set |->
      << Instr1("args", Fix(1)), Instr2("lvar", Fix(0), Fix(0)),
         Instr1("gset", "k"), Instr0("pop"), Instr1("const", Fix(10)),
         Instr0("return") >>,
    \* (k 100)
    main_k100 |->
      << Instr1("const", Fix(100)), Instr1("gvar", "k"),
         Instr1("callj", Fix(1)) >>,
    \* (lambda rest rest), (lambda (a . rest) rest), (lambda (a b . rest) rest)
    dot0 |-> << Instr1("argsdot", Fix(0)), Instr2("lvar", Fix(0), Fix(0)),
                Instr0("return") >>,
    dot1 |-> << Instr1("argsdot", Fix(1)), Instr2("lvar", Fix(0), Fix(1)),
                Instr0("return") >>,
    dot2 |-> << Instr1("argsdot", Fix(2)), Instr2("lvar", Fix(0), Fix(2)),
                Instr0("return") >>,
    \* (dot1 1 2 3)
    main_dot |->
      << Instr1("save", Fix(6)), Instr1("const", Fix(1)),
         Instr1("const", Fix(2)), Instr1("const", Fix(3)),
         Instr1("gvar", "dot1"), Instr1("fcallj", Fix(3)),
         Instr0("return") >>,
    \* (lambda rest (apply dot1 rest))
    main_apply |->
      << Instr1("argsdot", Fix(0)), Instr2("lvar", Fix(0), Fix(0)),
         Instr1("gvar", "dot1"), Instr1("callj", Fix(0 - 1)) >>,
    \* bytecode no compiler should emit
    bad_opcode |-> << Instr0("bogus") >>,
    bad_end |-> << Instr1("const", Fix(1)) >>,
    bad_callj |-> << Instr1("const", Fix(5)), Instr1("callj", Fix(0)) >>,
    bad_fcallj |-> << Instr1("const", Fix(5)), Instr1("fcallj", Fix(0)) >>,
    bad_args |-> << Instr1("args", Fix(2)), Instr0("return") >>,
    \* (lambda (x) (ident (lambda () x)))
    main_closure |->
      << Instr1("args", Fix(1)), Instr1("fn", Proc("lam_x")),
         Instr1("gvar", "ident"), Instr1("callj", Fix(1)) >>,
    lam_x |-> << Instr1("args", Fix(0)), Instr2("lvar", Fix(1), Fix(0)),
                 Instr0("return") >>,
    \* vm_init's cc_bytecode
    cc_bytecode |->
      << Instr1("args", Fix(1)), Instr2("lvar", Fix(1), Fix(1)),
         Instr2("lvar", Fix(1), Fix(0)), Instr0("setcc"),
         Instr2("lvar", Fix(0), Fix(0)), Instr0("return") >> ]

\* a top-level form: vm_execute(fn, stack, stack_top, n_args) after the host
\* has pushed the arguments
Form(name, arguments) == [fn |-> Proc(name), args |-> arguments]

\* the sequences of top-level forms the model runs
Programs ==
  { << Form("main_call", <<>>) >>,
    << Form("main_direct", <<>>) >>,
    << Form("f", << Fix(1) >>) >>,
    << Form("main_jump", << Fix(1) >>) >>,
    << Form("main_self", <<>>) >>,
    << Form("main_cc42", <<>>) >>,
    << Form("main_cc5", <<>>) >>,
    << Form("main_11", <<>>), Form("main_k100", <<>>) >>,
    << Form("main_11", <<>>), Form("main_k100", <<>>), Form("main_k100", <<>>) >>,
    << Form("main_dot", <<>>) >>,
    << Form("bad_opcode", <<>>) >>,
    << Form("bad_end", <<>>) >>,
    << Form("bad_callj", <<>>) >>,
    << Form("bad_fcallj", <<>>) >>,
    << Form("bad_args", << Fix(1) >>) >>,
    << Form("main_closure", << Fix(7) >>) >> }
  \cup { << Form(d, SubSeq(<< Fix(1), Fix(2), Fix(3) >>, 1, m)) >> :
           d \in {"dot0", "dot1", "dot2", "main_apply"}, m \in 0..3 }

\* the objects that exist when the first form is run
StartupObjects ==
  << [type |-> "THE_EMPTY_LIST"],
     [type |-> "BOOLEAN", value |-> FALSE],
     [type |-> "VECTOR", array |-> <<>>],
     [type |-> "SYMBOL", name |-> "error"],
     [type |-> "PRIMITIVE_PROC", fn |-> "+"] >>
  \o [i \in 1..Len(FixnumConstants) |->
        [type |-> "FIXNUM", value |-> FixnumConstants[i]]]
  \o [i \in 1..Len(ProcNames) |->
        [type |-> "COMPILED_PROC", bytecode |-> ProcNames[i],
         env |-> the_empty_list]]
  \o << [type |-> "META_PROC", proc |-> Proc("f")],
        [type |-> "VECTOR", array |-> [i \in 1..StackCapacity |-> the_empty_list]] >>

StartupGlobals ==
  [sym \in {ProcNames[i] : i \in 1..Len(ProcNames)} \cup {"+"} |->
     IF sym = "+" THEN plus_proc ELSE IF sym = "f" THEN f_meta ELSE Proc(sym)]

\* the machine before the first vm_execute; run is the whole program and
\* forms what is left of it
\* Roots when the host first calls vm_execute: vm_init has pinned cc_bytecode
StartupRoots == stack_set_push(make_stack_set(InitialStackSize), "cc_bytecode")

Startup(forms) ==
  [objects |-> StartupObjects, globals |-> StartupGlobals, forms |-> forms,
   run |-> forms,
   fn |-> the_empty_list, env |-> the_empty_list, top |-> the_empty_list,
   stack |-> the_stack, stack_top |-> 0, initial_top |-> 0, n_args |-> 0,
   pc |-> 0, args_for_call |-> 0, ret_addr |-> NIL,
   status |-> "idle", result |-> NIL,
   roots |-> StartupRoots, roots_on_entry |-> StartupRoots, scanned |-> FALSE]

\* event: the step just taken; was: the machine before it; saved: the
\* triples pushed by save so far; continued: a continuation has been invoked;
\* calls: the callj calls into compiled procedures of this activation, counted
\* up to MaxTailCalls
NothingYet ==
  [event |-> "startup", was |-> NoVm, saved |-> {}, continued |-> FALSE,
   calls |-> 0, captured |-> {}]

InitVM ==
  /\ IsGC(gc_init)
  /\ Root_Objects = StartupRoots
  /\ type = [c \in Cells |-> "UNINITIALIZED"]
  /\ data = [c \in Cells |-> <<>>]
  /\ locals = [v \in Locals |-> NIL]
  /\ workload = [types |-> {"PAIR", "FIXNUM"}, finalization |-> {FALSE}]
  /\ pc = "idle"
  /\ ret = NIL
  /\ exit_code = NotExited
  /\ wants_fin = [c \in Cells |-> FALSE]
  /\ collects_in_row = 0
  /\ popped = NoPop
  /\ native = NotBuilding
  /\ vm \in {Startup(forms) : forms \in Programs}
  /\ observed = NothingYet

\* --- the steps of the VM
Opcodes ==
  {"args", "argsdot", "return", "const", "fn", "fjump", "tjump", "jump",
   "fcallj", "callj", "lvar", "save", "gvar", "lset", "gset", "setcc", "cc",
   "pop"}

\* code_array = BYTECODE(fn), as a sequence of instructions
Code(m) == Bytecode[BYTECODE(m, m.fn)]

\* vm_execute is at vm_begin
AtBegin ==
  /\ vm.status = "running"
  /\ exit_code = NotExited
  /\ NewObject(vm) + MaxAllocPerStep <= MaxVmObjects + 1
  /\ vm.pc >= 0

\* instr = codes[pc++]; ret_addr is a variable of the return sequence only
Instr == Code(vm)[vm.pc + 1]
Fetched == [vm EXCEPT !.pc = @ + 1, !.ret_addr = NIL]

\* the switch has chosen the case of op
Dispatching(op) == AtBegin /\ vm.pc < Len(Code(vm)) /\ Instr.op = op

\* the triple a save pushes, and what the activation was when it did
SavedBy(m, instr) ==
  [at |-> NewObject(m) + 1, k |-> LONG(m, instr.arg1), fn |-> m.fn,
   env |-> m.env, frame |-> car(m, m.env), outer |-> cdr(m, m.env),
   stack |-> SubSeq(VARRAY(m, m.stack), 1, m.stack_top)]

\* VM_RETURN's pop_root(&top); pop_root(&env); pop_root(&fn)
\* the VM goes from vm to after by the step called event
Step(event, after) ==
  /\ vm' = after
  /\ observed' =
       [event |-> event, was |-> vm,
        saved |-> IF event = "save"
                  THEN observed.saved \cup {SavedBy(vm, Instr)}
                  ELSE observed.saved,
        continued |-> observed.continued \/ event = "setcc",
        calls |-> IF event = "callj" /\ vm'.status = "running" /\ vm'.ret_addr = NIL
                  THEN Min(observed.calls + 1, MaxTailCalls)
                  ELSE observed.calls,
        captured |-> IF event = "fn" THEN observed.captured \cup {vm.env}
                     ELSE observed.captured]
  /\ Root_Objects' = after.roots
  /\ UNCHANGED <<gcvars, type, data, locals, workload, pc, ret, exit_code,
                 wants_fin, collects_in_row, popped, native>>

\* the host pushes the arguments of a form
RECURSIVE HostPush(_, _)
HostPush(m, values) ==
  LET rest(h) == HostPush(h, Tail(values))
  IN IF values = <<>> THEN m ELSE Then(VPUSH(m, Head(values)), rest)

\* vm_execute from its entry to vm_begin
vm_execute(m, fn_arg, n_args_arg) ==
  LET pin(h) == vm_push_root(vm_push_root(vm_push_root(h, "fn"), "env"), "top")
  IN vm_fn_begin(pin([cons(m, the_empty_vector, CENV(m, fn_arg))
                        EXCEPT !.fn = fn_arg, !.env = NewObject(m),
                               !.initial_top = m.stack_top - n_args_arg,
                               !.n_args = n_args_arg, !.pc = 0,
                               !.top = the_empty_list, !.result = NIL,
                               !.roots_on_entry = m.roots]))

\* the host runs the next top-level form
Execute ==
  LET form == Head(vm.forms)
      host(m) == HostPush(m, form.args)
      enter(m) == vm_execute(m, form.fn, Len(form.args))
  IN /\ vm.status \in {"idle", "returned"}
     /\ vm.forms # <<>>
     /\ exit_code = NotExited
     /\ NewObject(vm) + MaxAllocPerStep <= MaxVmObjects + 1
     /\ vm' = Then(host([vm EXCEPT !.forms = Tail(@), !.stack = the_stack,
                                   !.stack_top = 0, !.ret_addr = NIL,
                                   !.status = "running"]), enter)
     /\ observed' = [event |-> "vm_execute", was |-> vm, saved |-> observed.saved,
                      continued |-> observed.continued, calls |-> 0,
                      captured |-> observed.captured]
     /\ Root_Objects' = vm'.roots
     /\ UNCHANGED <<gcvars, type, data, locals, workload, pc, ret, exit_code,
                    wants_fin, collects_in_row, popped, native>>

case_pc_past_end ==
  AtBegin /\ vm.pc >= Len(Code(vm)) /\ Step("pc flew off", pc_flew_off(vm))

case_args == Dispatching("args") /\ Step("args", args(Fetched, Instr))
case_argsdot == Dispatching("argsdot") /\ Step("argsdot", argsdot(Fetched, Instr))
case_fjump == Dispatching("fjump") /\ Step("fjump", fjump(Fetched, Instr))
case_tjump == Dispatching("tjump") /\ Step("tjump", tjump(Fetched, Instr))
case_jump == Dispatching("jump") /\ Step("jump", jump(Fetched, Instr))
case_fn == Dispatching("fn") /\ Step("fn", fn(Fetched, Instr))
case_fcallj == Dispatching("fcallj") /\ Step("fcallj", fcallj(Fetched, Instr))
case_callj == Dispatching("callj") /\ Step("callj", callj(Fetched, Instr))
case_lvar == Dispatching("lvar") /\ Step("lvar", lvar(Fetched, Instr))
case_lset == Dispatching("lset") /\ Step("lset", lset(Fetched, Instr))
case_gvar == Dispatching("gvar") /\ Step("gvar", gvar(Fetched, Instr))
case_gset == Dispatching("gset") /\ Step("gset", gset(Fetched, Instr))

\* car(stack) of a stack that is a VECTOR reads a pair's field of an object
\* that has none: any pointer may come out
case_setcc ==
  /\ Dispatching("setcc")
  /\ \E car_of_vector \in {WILD} \cup (1..Len(vm.objects)) :
       Step("setcc", setcc(Fetched, car_of_vector))

case_cc == Dispatching("cc") /\ Step("cc", cc(Fetched))
case_pop == Dispatching("pop") /\ Step("pop", pop(Fetched))
case_save == Dispatching("save") /\ Step("save", save(Fetched, Instr))
case_return ==
  Dispatching("return") /\ Step("return", RETURN_OPCODE_INSTRUCTIONS(Fetched))
case_const == Dispatching("const") /\ Step("const", const(Fetched, Instr))

case_default ==
  /\ AtBegin /\ vm.pc < Len(Code(vm)) /\ Instr.op \notin Opcodes
  /\ Step("strange opcode", strange_opcode(Fetched))

NextVM ==
  \/ Execute
  \/ case_pc_past_end
  \/ case_args
  \/ case_argsdot
  \/ case_fjump
  \/ case_tjump
  \/ case_jump
  \/ case_fn
  \/ case_fcallj
  \/ case_callj
  \/ case_lvar
  \/ case_lset
  \/ case_gvar
  \/ case_gset
  \/ case_setcc
  \/ case_cc
  \/ case_pop
  \/ case_save
  \/ case_return
  \/ case_const
  \/ case_default

SpecVM == InitVM /\ [][NextVM]_vars

\* =============================================================== properties
PrevColor(c) == (c + ColorModulus - 1) % ColorModulus

\* the number of entries of the sequence s that are x
Count(s, x) == Cardinality({i \in 1..Len(s) : s[i] = x})
Occurrences(ss, x) == Count(ss.objs, x)

\* a direct baker_collect call has just returned
JustCollected == collects_in_row >= 1

\* C1: alloc_object never returns a cell that is reachable from an entry of
\* Roots, whatever pushes, pops, allocations and collections came before.
C1_AllocNeverReturnsReachable ==
  pc = "allocated" => ret \notin Reachable

\* alloc_object has run a collection and returned a cell while cells are
\* pinned and alive on Old
C1_Witness ==
  /\ pc = "allocated"
  /\ collections >= 1
  /\ Reachable # {}
  /\ Reachable \subseteq OnOld

\* C2: when baker_collect returns, the cells reachable from Roots are exactly
\* the cells on Old, each with color current_color - 1 (modulo the width of
\* the color byte), and no cell left on Active is reachable.
C2_CollectPartitionsByReachability ==
  JustCollected =>
    /\ \A c \in Reachable : c \in OnOld /\ color[c] = PrevColor(current_color)
    /\ \A c \in OnActive : c \notin Reachable
    /\ OnActive \cup OnOld = 1..heap_cells

\* a collection with two roots, one of them a child of the other's object,
\* that also left garbage on Active
C2_Witness ==
  /\ JustCollected
  /\ Root_Objects.top = 2
  /\ Cardinality(RootCells) = 2
  /\ \E a \in RootCells : \E b \in RootCells \ {a} : b \in RefFields(a)
  /\ OnActive # {}

\* C3: Active and Old are well-formed doubly linked lists in every state: head
\* and tail are nil together, a node's prev is nil iff it is the head and its
\* next is nil iff it is the tail, walking next from head visits num_objects
\* nodes and ends at tail, each node's prev is its predecessor, and no cell is
\* on both lists.
ListValid(list) ==
  LET cells == Walk(next, list.head, MaxCells + 1)
  IN /\ (list.head = NIL) = (list.tail = NIL)
     /\ Len(cells) = list.num_objects
     /\ Cardinality(SeqRange(cells)) = Len(cells)
     /\ list.head # NIL => cells[Len(cells)] = list.tail
     /\ \A i \in 1..Len(cells) :
          /\ (prev[cells[i]] = NIL) = (cells[i] = list.head)
          /\ (next[cells[i]] = NIL) = (cells[i] = list.tail)
          /\ i > 1 => prev[cells[i]] = cells[i - 1]
          /\ i < Len(cells) => next[cells[i]] = cells[i + 1]

C4_CountsAddUpToSlab ==
  pc = "allocated" =>
    /\ Active_Heap_Objects.num_objects + Old_Heap_Objects.num_objects = heap_cells
    /\ Cardinality(OnActive \cup OnOld) = heap_cells

\* an alloc_object after a collection that moved cells to Old and an extension
C4_Witness ==
  /\ pc = "allocated"
  /\ heap_cells > InitialHeapCells
  /\ Old_Heap_Objects.num_objects > 0

\* C5 as stated: in every state outside of baker_collect every cell reachable
\* from Roots is on Old with color current_color - 1 and every free cell is on
\* Active.
C5_Original ==
  /\ \A c \in Reachable : c \in OnOld /\ color[c] = PrevColor(current_color)
  /\ FreeCells \subseteq OnActive

\* C5 amended: outside of baker_collect every cell reachable from Roots is
\* either on Old with color current_color - 1, or a cell handed out since the
\* last collection, which is on Active with color current_color; every free
\* cell is on Active.
C5_ReachableOnOldOrFreshlyAllocated ==
  /\ \A c \in Reachable :
       \/ c \in OnOld /\ color[c] = PrevColor(current_color)
       \/ c \in OnActive /\ c \notin FreeCells /\ color[c] = current_color
  /\ FreeCells \subseteq OnActive

\* after a collection, a pinned survivor on Old points at a cell allocated
\* since, which is on Active
C5_Witness ==
  /\ pc = "idle"
  /\ collections >= 1
  /\ \E a \in Reachable \cap OnOld : \E b \in Reachable \cap OnActive : TRUE

\* C6: after a collection every cell that asked for finalization and was not
\* reached has had finalize_object called exactly once since its allocation
\* and is on neither finalizable stack; every reached one has not been
\* finalized and is on Finalizable exactly once; FinalizableNext is empty.
C6_UnreachedFinalizedOnce ==
  JustCollected =>
    /\ \A c \in Cells :
         /\ (wants_fin[c] /\ c \notin Reachable) =>
              /\ finalize_calls[c] = 1
              /\ Occurrences(Finalizable_Objects, c) = 0
         /\ (wants_fin[c] /\ c \in Reachable) =>
              /\ finalize_calls[c] = 0
              /\ Occurrences(Finalizable_Objects, c) = 1
         /\ ~wants_fin[c] =>
              /\ finalize_calls[c] = 0
              /\ Occurrences(Finalizable_Objects, c) = 0
    /\ Finalizable_Objects_Next.top = 0
    /\ Finalizable_Objects_Next.objs = <<>>

\* the second of two collections in a row, after a finalizable cell was
\* finalized by the first and another survived both
C6_Witness ==
  /\ collects_in_row = 2
  /\ \E c \in Cells : wants_fin[c] /\ finalize_calls[c] = 1
  /\ \E c \in Reachable : wants_fin[c]

\* C7: between collections every cell in use (handed out by alloc_object and
\* not reclaimed since) that asked for finalization at its allocation is on
\* exactly one of Finalizable and FinalizableNext, exactly once.
C7_FinalizableOnExactlyOneStack ==
  \A c \in LiveCells :
    wants_fin[c] =>
      Occurrences(Finalizable_Objects, c) + Occurrences(Finalizable_Objects_Next, c) = 1

\* a finalizable cell that survived a collection, next to one allocated since
C7_Witness ==
  /\ collections >= 1
  /\ \E c \in OnOld : wants_fin[c]
  /\ \E c \in LiveCells \cap OnActive : wants_fin[c]

\* C8: a baker_collect call that directly follows another one, with no
\* allocation and no root change between them, leaves the set of cells on Old
\* unchanged and returns the same free count.
C8_CollectIdempotent ==
  [][(collects_in_row >= 1 /\ collects_in_row' = 2) =>
       (OnOld' = OnOld /\ num_free' = num_free)]_vars

\* two collections in a row with survivors on Old and garbage on Active
C8_Witness ==
  /\ collects_in_row = 2
  /\ OnOld # {}
  /\ num_free > 0

\* the last operation was pop_root(&locals[popped.addr]) on Roots = popped.roots
JustPopped == popped.addr \in Locals

\* C9: pop_root(&r) with &r anywhere in Roots returns normally and leaves
\* Roots with the entries it had minus one occurrence of &r, one entry lower;
\* with &r on top, exactly the top entry is removed.
C9_PopRemovesOneOccurrence ==
  (JustPopped /\ popped.addr \in SeqRange(popped.roots)) =>
    /\ exit_code = NotExited
    /\ Root_Objects.top = Len(popped.roots) - 1
    /\ Len(Root_Objects.objs) = Root_Objects.top
    /\ \A a \in Locals :
         Occurrences(Root_Objects, a) =
           Count(popped.roots, a) - (IF a = popped.addr THEN 1 ELSE 0)
    /\ popped.roots[Len(popped.roots)] = popped.addr =>
         Root_Objects.objs = SubSeq(popped.roots, 1, Len(popped.roots) - 1)

\* a pop of the bottom entry of three different ones
C9_Witness ==
  /\ JustPopped
  /\ exit_code = NotExited
  /\ Len(popped.roots) >= 3
  /\ popped.roots[1] = popped.addr
  /\ Cardinality(SeqRange(popped.roots)) >= 3

\* C10: pop_root(&r) with &r not in Roots, an empty Roots included, ends the
\* process with exit code 2 and does not return.
C10_MissingPopIsFatal ==
  (JustPopped /\ popped.addr \notin SeqRange(popped.roots)) =>
    exit_code = ExitCodeGc

\* the cells reachable from Roots while an instruction is built
InstrReachable ==
  Closure({locals[Root_Objects.objs[i]] : i \in 1..Len(Root_Objects.objs)} \ {NIL})

\* the native code is about to call alloc_object
AtInstrAllocation ==
  native.at \in {"make_fixnum arg1", "make_fixnum arg2", "cons alloc"}

\* the variables whose value the native code uses after the allocation at
\* hand: the arguments already evaluated while the other one is made; in a
\* cons its parameters and what make_instr conses later
InstrUsedLater ==
  CASE native.at \in {"make_fixnum arg1", "make_fixnum arg2"} -> native.evaluated
    [] native.at = "cons alloc" ->
         {"car", "cdr"} \cup
         {ConsedNext[k] : k \in (native.made + 2)..Len(ConsedNext)}
    [] OTHER -> {}

\* C11: the native code of the VM obeys the pinning contract: at every
\* allocation, each object a variable holds and the code uses afterwards is
\* reachable from Roots; in particular arg1 and arg2 of make_instr, fresh
\* fixnums in vm_init, across the allocations that follow their creation.
C11_NativeCodePinsWhatItUses ==
  AtInstrAllocation =>
    \A v \in InstrUsedLater :
      locals[v] \in InstrCells => locals[v] \in InstrReachable

\* -------------------------------------------------- properties of the VM
\* a VM_ASSERT of vm_execute has failed on the bytecode it was given: the
\* switch's default, pc past the end, a callee that is no procedure, or an
\* argument count that args or argsdot rejects
VmAssertFailed ==
  /\ vm.status = "returned"
  /\ vm.result = error_sym
  /\ observed.event \in {"strange opcode", "pc flew off", "callj", "fcallj",
                         "args", "argsdot"}

\* C12: malformed bytecode (unknown opcode, pc at or past the end, a call
\* target that is neither compiled nor primitive, an argument-count mismatch
\* in args or argsdot) terminates the process with a non-zero exit code.
C12_MalformedBytecodeIsFatal ==
  VmAssertFailed => exit_code # NotExited /\ exit_code # 0

\* the step just taken ran the return sequence and resumed from the
\* continuation triple vm.ret_addr
Resumed ==
  /\ vm.status = "running"
  /\ observed.event \in {"return", "callj", "fcallj"}
  /\ vm.ret_addr # NIL

\* the result the return sequence held aside: the value return found on top,
\* or what the primitive returned
HeldAside ==
  IF observed.event = "return" THEN VARRAY(observed.was, observed.was.stack)[observed.was.stack_top]
  ELSE vm.top

\* the slots [0, stack_top) of the value stack
LiveStack(m) == SubSeq(VARRAY(m, m.stack), 1, m.stack_top)

\* C13: when a callee entered after save k returns (directly or after tail
\* calls to compiled or primitive procedures), the VM resumes with pc = k,
\* fn = the fn that executed save, env = the env cons current at save with
\* the car and cdr it had then, and the stack as before save plus the result.
C13_ReturnResumesSaver ==
  (Resumed /\ ~observed.continued) =>
    \E s \in observed.saved :
      /\ s.at = vm.ret_addr
      /\ vm.pc = s.k
      /\ vm.fn = s.fn
      /\ vm.env = s.env
      /\ car(vm, vm.env) = s.frame
      /\ cdr(vm, vm.env) = s.outer
      /\ LiveStack(vm) = s.stack \o <<HeldAside>>

\* main_call is resumed with a non-empty stack below the result, after its
\* callee tail-called a compiled procedure that tail-called a primitive
C13_Witness ==
  /\ Resumed /\ ~observed.continued
  /\ observed.event = "callj"
  /\ observed.was.fn = Proc("tail")
  /\ vm.fn = Proc("main_call")
  /\ vm.stack_top = 2

\* the step just taken was a callj or fcallj (event) that entered a compiled
\* callee: it neither returned nor ran the return sequence
EnteredBy(event) ==
  /\ observed.event = event
  /\ vm.status = "running"
  /\ vm.ret_addr = NIL

\* was and now are the machine before and after a callj into now.fn
CalljEffect(was, now) ==
  /\ now.env = was.env
  /\ car(now, now.env) = car(was, was.env)
  /\ cdr(now, now.env) = CENV(now, now.fn)
  /\ Len(now.objects) = Len(was.objects)

\* was and now are the machine before and after a fcallj n into now.fn
FcalljEffect(was, now, n) ==
  /\ ~IsObject(was, now.env)
  /\ is_pair(now, now.env)
  /\ ~IsObject(was, car(now, now.env))
  /\ is_vector(now, car(now, now.env))
  /\ VSIZE(now, car(now, now.env)) = n + 1
  /\ cdr(now, now.env) = CENV(now, now.fn)
  /\ now.objects[was.env] = was.objects[was.env]

\* the operand of the instruction the machine m is about to execute
Operand(m) == LONG(m, Code(m)[m.pc + 1].arg1)

\* C14: for a compiled callee f with captured env E, callj keeps the current
\* env cons and its car, sets its cdr to E and allocates nothing; fcallj n
\* makes env a fresh cons of a fresh frame of size n+1 and E, and leaves the
\* caller's env cons as it was.
C14_CalljReusesFcalljAllocates ==
  /\ EnteredBy("callj") => CalljEffect(observed.was, vm)
  /\ EnteredBy("fcallj") => FcalljEffect(observed.was, vm, Operand(observed.was))

\* a callj has given the env cons a new cdr, in an activation that a fcallj 1
\* entered with a fresh cons around a captured env that is not empty
C14_Witness ==
  /\ EnteredBy("callj")
  /\ cdr(vm, vm.env) # cdr(observed.was, observed.was.env)
  /\ cdr(observed.was, observed.was.env) # the_empty_list
  /\ VSIZE(vm, car(vm, vm.env)) = 2
  /\ vm.n_args = 1

\* the conses of the env chain that starts at a
RECURSIVE EnvChain(_, _, _)
EnvChain(m, a, seen) ==
  IF ~is_pair(m, a) \/ a \in seen THEN seen
  ELSE EnvChain(m, cdr(m, a), seen \cup {a})

\* v is a continuation triple (k . (fn . env))
IsTriple(m, v) ==
  /\ is_pair(m, v) /\ is_fixnum(m, car(m, v)) /\ is_pair(m, cdr(m, v))
  /\ is_compiled_proc(m, car(m, cdr(m, v)))

\* the activation runs the procedures f and g, which do nothing but
\* tail-call each other with callj 1 after args 1
InTailChain ==
  /\ vm.status = "running"
  /\ vm.fn \in {Proc("f"), Proc("g")}

\* C15: a chain of N consecutive callj tail calls between compiled
\* procedures, each consuming its arguments with args, runs in the one
\* vm_execute activation that began it, pushes no continuation triple, and
\* neither the stack height after each callee's args nor the length of the
\* env chain grows with N.
C15_TailCallsRunInConstantSpace ==
  InTailChain =>
    /\ observed.calls >= 1 => observed.event # "vm_execute"
    /\ observed.saved = {}
    /\ \A i \in 1..vm.stack_top : ~IsTriple(vm, VARRAY(vm, vm.stack)[i])
    /\ observed.event = "args" => vm.stack_top = vm.initial_top
    /\ vm.stack_top <= vm.initial_top + 2
    /\ Cardinality(EnvChain(vm, vm.env, {})) = 1

\* the callee of the MaxTailCalls-th tail call of the chain (or a later one)
\* has consumed its argument
C15_Witness ==
  /\ InTailChain
  /\ observed.calls = MaxTailCalls
  /\ observed.event = "args"
  /\ observed.was.stack_top = vm.stack_top + 1

\* the live stack of m is a vector whose slots [0, stack_top) are slots
StackIs(m, slots) ==
  /\ is_vector(m, m.stack)
  /\ m.stack_top = Len(slots)
  /\ m.stack_top <= VSIZE(m, m.stack)
  /\ LiveStack(m) = slots

\* the frame cc made for the continuation being run: cc_bytecode runs in an
\* env whose second frame holds the stack copy and the captured stack_top
CapturedFrame(m) == VARRAY(m, car(m, cdr(m, m.env)))
CapturedStack(m) == SubSeq(VARRAY(m, CapturedFrame(m)[1]), 1, LONG(m, CapturedFrame(m)[2]))

\* the i-th form of the program name has returned the fixnum value
Evaluated(name, i, value) ==
  /\ vm.run[1].fn = Proc(name)
  /\ Len(vm.run) - Len(vm.forms) = i
  /\ vm.status = "returned"
  /\ is_fixnum(vm, vm.result)
  /\ LONG(vm, vm.result) = value

\* the i-th form of the program name is over, in whatever way
Over(name, i) ==
  /\ vm.run[1].fn = Proc(name)
  /\ Len(vm.run) - Len(vm.forms) = i
  /\ vm.status \in {"returned", "undefined"}

\* C16: invoking a continuation with a value v makes the live stack's slots
\* [0, captured stack_top) equal to the snapshot cc took and stack_top the
\* captured one, then delivers v to the continuation pending at capture:
\* (call/cc (lambda (k) (k 42))) is 42, (call/cc (lambda (k) (+ 1 (k 5)))) is 5.
C16_ContinuationReinstatesStack ==
  /\ observed.event = "setcc" => StackIs(vm, CapturedStack(observed.was))
  /\ Over("main_cc42", 1) => Evaluated("main_cc42", 1, 42)
  /\ Over("main_cc5", 1) => Evaluated("main_cc5", 1, 5)

\* the continuations made so far: the procedures whose code is cc_bytecode
Continuations(m) ==
  {a \in 1..Len(m.objects) :
     is_compiled_proc(m, a) /\ BYTECODE(m, a) = "cc_bytecode"}

\* the stack copy the continuation k holds
Snapshot(m, k) == VARRAY(m, VARRAY(m, car(m, CENV(m, k)))[1])

\* C17: the stack snapshot a continuation holds is changed neither by pushes
\* and pops on the live stack nor by execution after setcc reinstated it, so
\* the continuation can be invoked again: after
\* (+ 1 (call/cc (lambda (c) (set! k c) 10))) gave 11, (k 100) gives 101,
\* every time.
C17_ContinuationReusable ==
  /\ observed.was.status = "running" =>
       \A k \in Continuations(observed.was) :
         Snapshot(vm, k) = Snapshot(observed.was, k)
  /\ Over("main_11", 1) => Evaluated("main_11", 1, 11)
  /\ Over("main_11", 2) => Evaluated("main_11", 2, 101)
  /\ Over("main_11", 3) => Evaluated("main_11", 3, 101)

\* the elements of the list a, in order; <<WILD>> at the end of a list that
\* is not proper
RECURSIVE ListElements(_, _, _)
ListElements(m, a, fuel) ==
  IF is_the_empty_list(a) THEN <<>>
  ELSE IF ~is_pair(m, a) \/ fuel = 0 THEN <<WILD>>
  ELSE <<car(m, a)>> \o ListElements(m, cdr(m, a), fuel - 1)

\* the n_args arguments on the stack of m, in the order they were pushed
Arguments(m) == SubSeq(VARRAY(m, m.stack), m.stack_top - m.n_args + 1, m.stack_top)

\* was and now are the machine before and after argsdot n, given given
ArgsdotEffect(was, now, n, given) ==
  IF Len(given) < n
  THEN now.status = "returned" /\ now.result = error_sym
  ELSE /\ now.status = "running"
       /\ now.stack_top = was.stack_top - Len(given)
       /\ now.env = was.env
       /\ \A i \in 1..n : VARRAY(now, car(now, now.env))[i] = given[i]
       /\ ListElements(now, VARRAY(now, car(now, now.env))[n + 1], Len(given) + 1)
            = SubSeq(given, n + 1, Len(given))
       /\ IF VSIZE(was, car(was, was.env)) < n + 1
          THEN /\ ~IsObject(was, car(now, now.env))
               /\ VSIZE(now, car(now, now.env)) = n + 1
          ELSE car(now, now.env) = car(was, was.env)

\* C18: argsdot n with m >= n arguments pops exactly m values, stores
\* argument i in slot i of the top frame for i < n and the proper list of the
\* other m - n arguments, in source order, in slot n, and replaces the top
\* frame by a fresh one of size n+1 only if the current one is smaller; with
\* m < n it fails with an argument-count error.
C18_ArgsdotCollectsRest ==
  observed.event = "argsdot" =>
    ArgsdotEffect(observed.was, vm, Operand(observed.was), Arguments(observed.was))

\* argsdot 1 with three arguments in a frame that is large enough: the rest
\* list has two elements
C18_Witness ==
  /\ observed.event = "argsdot"
  /\ Operand(observed.was) = 1
  /\ observed.was.n_args = 3
  /\ car(vm, vm.env) = car(observed.was, observed.was.env)
  /\ ListElements(vm, VARRAY(vm, car(vm, vm.env))[2], 4) = <<Fix(2), Fix(3)>>

\* ------------------------------------------- the heap growing under a client
\* A client that keeps a list in a pinned variable and drops scratch cells:
\* list = make_fixnum(..) at first, then list = cons(list, list); scratch
\* cells are never pinned.  The number of live cells at a collection is the
\* length of the list, so the collection frees any number of cells.
GrowthLocals == {"list", "scratch"}

\* size of the first slab and first value of Next_Heap_Extension in this
\* scenario (both 1000 in the source)
GrowthHeapCells == 5

\* the slab takes the first extension and no more
MaxGrowthCells == 2 * GrowthHeapCells
GrowthCells == 1..MaxGrowthCells

\* gc_init over the cells of this scenario
growth_gc_init ==
  LET reset(h) == [h EXCEPT !.Next_Free_Object = h.Active_Heap_Objects.head]
      before == [BeforeFirstSlab EXCEPT
                   !.prev = [c \in GrowthCells |-> NIL],
                   !.next = [c \in GrowthCells |-> NIL],
                   !.color = [c \in GrowthCells |-> 0],
                   !.finalize_calls = [c \in GrowthCells |-> 0],
                   !.Next_Heap_Extension = GrowthHeapCells]
  IN reset(extend_heap(before, GrowthHeapCells))

InitGrowth ==
  /\ IsGC(growth_gc_init)
  /\ Root_Objects = make_stack_set(InitialStackSize)
  /\ type = [c \in GrowthCells |-> "UNINITIALIZED"]
  /\ data = [c \in GrowthCells |-> <<>>]
  /\ locals = [v \in GrowthLocals |-> NIL]
  /\ workload = [types |-> {"PAIR", "FIXNUM"}, finalization |-> {FALSE}]
  /\ pc = "idle"
  /\ ret = NIL
  /\ exit_code = NotExited
  /\ wants_fin = [c \in GrowthCells |-> FALSE]
  /\ collects_in_row = 0
  /\ popped = NoPop
  /\ native = NotBuilding
  /\ vm = NoVm
  /\ observed = Nothing

\* the slab has room for the extension alloc_object would make
GrowthRoomToExtend ==
  LET fits(c) == FreedTooFew(c.num_free, c.Next_Heap_Extension)
                   => c.heap_cells + c.Next_Heap_Extension <= MaxGrowthCells
  IN Next_Free_Object # NIL \/ fits(baker_collect(GC))

\* what alloc_object(0) did: whether it collected, the count baker_collect
\* returned, Next_Heap_Extension and the size of the slab on entry, and
\* Next_Free_Object after the if(Next_Free_Object == NULL) block
AllocObserved ==
  [event |-> "alloc_object",
   collected |-> Next_Free_Object = NIL,
   freed |-> IF Next_Free_Object = NIL THEN baker_collect(GC).num_free ELSE 0,
   pending |-> Next_Heap_Extension,
   cells |-> heap_cells,
   next_free |-> Replenish(GC).Next_Free_Object]

\* alloc_object(0) followed by the initialisation of the cell
GrowthAlloc(ty, payload, dest) ==
  /\ exit_code = NotExited
  /\ Next_Free_Object = NIL => collections < MaxCollections
  /\ GrowthRoomToExtend
  /\ InstrFill(TakeCell(Replenish(GC), FALSE), ty, payload, dest)
  /\ observed' = AllocObserved
  /\ UNCHANGED <<workload, pc, ret, exit_code, wants_fin, collects_in_row, popped,
                 native, vm>>

\* list = make_fixnum(..); push_root(&list)
StartList ==
  /\ locals["list"] = NIL
  /\ GrowthAlloc("FIXNUM", <<>>, "list")
  /\ Root_Objects' = stack_set_push(Root_Objects, "list")

\* list = cons(list, list)
Keep ==
  /\ locals["list"] # NIL
  /\ GrowthAlloc("PAIR", <<locals["list"], locals["list"]>>, "list")
  /\ UNCHANGED Root_Objects

\* scratch = make_fixnum(..), never pinned
Drop ==
  /\ GrowthAlloc("FIXNUM", <<>>, "scratch")
  /\ UNCHANGED Root_Objects

NextGrowth ==
  \/ StartList
  \/ Keep
  \/ Drop

SpecGrowth == InitGrowth /\ [][NextGrowth]_vars

\* ------------------------------------------------ properties of heap growth
\* the last step was an alloc_object that found Next_Free_Object NULL
AllocCollected == observed.event = "alloc_object" /\ observed.collected

\* that alloc_object appended a heap extension
Extended == heap_cells > observed.cells

\* what an extension, or its absence, leaves: the slab grown by the pending
\* size and the pending size tripled, or both as they were
GrowthEffect ==
  IF Extended
  THEN /\ heap_cells = observed.cells + observed.pending
       /\ Next_Heap_Extension = 3 * observed.pending
  ELSE /\ heap_cells = observed.cells
       /\ Next_Heap_Extension = observed.pending

\* the allocation succeeded: a free cell was at hand and was handed out
AllocSucceeded ==
  /\ observed.next_free \in 1..heap_cells
  /\ exit_code = NotExited
  /\ \E v \in GrowthLocals : locals[v] = observed.next_free

\* C19 as stated: when alloc_object finds next_free nil it runs one
\* collection and appends a heap extension exactly when freed is 0 or the
\* ratio of the pending extension size to the freed count exceeds 2; each
\* extension multiplies the pending size by 3, and afterwards next_free is
\* non-nil so the allocation succeeds.
C19_ExtendsWhenRatioExceedsTwo ==
  AllocCollected =>
    /\ Extended <=> (observed.freed = 0 \/ observed.pending > 2 * observed.freed)
    /\ GrowthEffect
    /\ AllocSucceeded

\* C19 amended: the extension is appended exactly when freed is 0 or the
\* pending extension size is at least 3 times the freed count (the quotient
\* of the truncating division exceeds 2); each extension multiplies the
\* pending size by 3, and afterwards next_free is non-nil so the allocation
\* succeeds.
C19_ExtendsWhenQuotientExceedsTwo ==
  AllocCollected =>
    /\ Extended <=> (observed.freed = 0 \/ observed.pending >= 3 * observed.freed)
    /\ GrowthEffect
    /\ AllocSucceeded

\* a collection freed some cells, yet too few, and the heap was extended
C19_Witness ==
  /\ AllocCollected
  /\ observed.freed > 0
  /\ Extended
  /\ Next_Heap_Extension = 3 * GrowthHeapCells

\* ------------------------------------------ many collections over one heap
\* A client that keeps at most one pinned object and calls baker_collect
\* directly, often enough for current_color to wrap: it works, idles through
\* many collections and works again.
MaxColorCycles == 130

\* the cells from c onward along nxt, at most fuel of them
RECURSIVE WalkFrom(_, _, _)
WalkFrom(nxt, c, fuel) ==
  IF c = NIL \/ fuel = 0 THEN <<>> ELSE <<c>> \o WalkFrom(nxt, nxt[c], fuel - 1)

\* what a baker_collect that starts now does: the state right after its
\* first ++current_color and the state it returns in, the cells that are not
\* free when it starts and those reachable from Roots
CollectObserved ==
  [event |-> "baker_collect",
   first |-> FirstAdvance(GC),
   after |-> baker_collect(GC),
   live |-> (1..heap_cells) \ SeqRange(WalkFrom(next, Next_Free_Object, heap_cells)),
   reachable |-> InstrReachable]

\* the client allocates during its first and its last collections, and
\* only collects in between
Working ==
  \/ collections < MaxCollections
  \/ collections >= MaxColorCycles - MaxCollections

\* list = make_fixnum(..); push_root(&list)
MakeOne ==
  /\ exit_code = NotExited
  /\ Working
  /\ locals["list"] = NIL
  /\ Next_Free_Object = NIL => collections < MaxColorCycles
  /\ GrowthRoomToExtend
  /\ InstrFill(TakeCell(Replenish(GC), FALSE), "FIXNUM", <<>>, "list")
  /\ Root_Objects' = stack_set_push(Root_Objects, "list")
  /\ observed' = IF Next_Free_Object = NIL THEN CollectObserved ELSE Nothing
  /\ UNCHANGED <<workload, pc, ret, exit_code, wants_fin, collects_in_row, popped,
                 native, vm>>

\* pop_root(&list); the object is dropped
LoseOne ==
  /\ exit_code = NotExited
  /\ Working
  /\ locals["list"] # NIL
  /\ Root_Objects' = stack_set_pop(Root_Objects, "list").ss
  /\ locals' = [locals EXCEPT !["list"] = NIL]
  /\ observed' = Nothing
  /\ UNCHANGED <<gcvars, type, data, workload, pc, ret, exit_code, wants_fin,
                 collects_in_row, popped, native, vm>>

\* a direct call of baker_collect()
CollectAgain ==
  /\ exit_code = NotExited
  /\ collections < MaxColorCycles
  /\ SetGC(baker_collect(GC))
  /\ observed' = CollectObserved
  /\ UNCHANGED <<type, data, locals, Root_Objects, workload, pc, ret, exit_code,
                 wants_fin, collects_in_row, popped, native, vm>>

NextColorCycles ==
  \/ MakeOne
  \/ LoseOne
  \/ CollectAgain

SpecColor == InitGrowth /\ [][NextColorCycles]_vars

\* --------------------------------------------- properties of the color byte
\* the last step ran a collection
CycleObserved == observed.event = "baker_collect"

\* the cells that carried the new current_color right after the first advance
CarriedNewColor ==
  {c \in 1..observed.first.heap_cells :
     observed.first.color[c] = observed.first.current_color}

\* the traversal took no reachable cell for already visited: all of them were
\* moved to Old
NoneMistaken ==
  observed.reachable \subseteq
    SeqRange(WalkFrom(observed.after.next, observed.after.Old_Heap_Objects.head,
                      heap_cells))

\* C20 as stated: in every collection cycle, immediately after the first
\* color advance no cell in the heap, live or free, carries the new
\* current_color; consequently no cell is mistaken for already visited by
\* the traversal, after any number of cycles.
C20_NoCellCarriesNewColor ==
  CycleObserved => CarriedNewColor = {} /\ NoneMistaken

\* C20 amended: immediately after the first color advance no live cell (one
\* handed out by alloc_object and not reclaimed since) carries the new
\* current_color; consequently no cell is mistaken for already visited by
\* the traversal, after any number of cycles.
C20_NoLiveCellCarriesNewColor ==
  CycleObserved => CarriedNewColor \cap observed.live = {} /\ NoneMistaken

\* current_color has wrapped: a collection ran over a live object while a
\* free cell carried the new color
C20_Witness ==
  /\ CycleObserved
  /\ collections > ColorModulus \div 2
  /\ observed.reachable # {}
  /\ CarriedNewColor # {}

\* ------------------------------------------------------ extend_heap alone
\* extend_heap has external linkage: besides gc_init and alloc_object, any
\* caller may extend a heap whose Active list holds only free cells, by any
\* number of cells.  The scenario starts inside gc_init, before its
\* extend_heap, and collects now and then so that current_color varies.
MaxExtension == 3

InitExtend ==
  /\ IsGC([BeforeFirstSlab EXCEPT
             !.prev = [c \in InstrCells |-> NIL],
             !.next = [c \in InstrCells |-> NIL],
             !.color = [c \in InstrCells |-> 0],
             !.finalize_calls = [c \in InstrCells |-> 0]])
  /\ Root_Objects = make_stack_set(InitialStackSize)
  /\ type = [c \in InstrCells |-> "UNINITIALIZED"]
  /\ data = [c \in InstrCells |-> <<>>]
  /\ locals = [v \in InstrLocals |-> NIL]
  /\ workload = [types |-> {"PAIR", "FIXNUM"}, finalization |-> {FALSE}]
  /\ pc = "idle"
  /\ ret = NIL
  /\ exit_code = NotExited
  /\ wants_fin = [c \in InstrCells |-> FALSE]
  /\ collects_in_row = 0
  /\ popped = NoPop
  /\ native = NotBuilding
  /\ vm = NoVm
  /\ observed = Nothing

\* extend_heap(extension)
ExtendHeap(extension) ==
  /\ heap_cells + extension <= MaxInstrCells
  /\ SetGC(extend_heap(GC, extension))
  /\ observed' = [event |-> "extend_heap", extension |-> extension, was |-> GC]
  /\ UNCHANGED <<type, data, locals, Root_Objects, workload, pc, ret, exit_code,
                 wants_fin, collects_in_row, popped, native, vm>>

\* baker_collect() between two extensions: nothing is live
ExtendCollect ==
  /\ heap_cells > 0
  /\ collections < MaxCollections
  /\ SetGC(baker_collect(GC))
  /\ observed' = Nothing
  /\ UNCHANGED <<type, data, locals, Root_Objects, workload, pc, ret, exit_code,
                 wants_fin, collects_in_row, popped, native, vm>>

NextExtend ==
  \/ \E extension \in 1..MaxExtension : ExtendHeap(extension)
  \/ ExtendCollect

SpecExtend == InitExtend /\ [][NextExtend]_vars

\* ------------------------------------------------ properties of extend_heap
\* the last step was an extend_heap
JustExtended == observed.event = "extend_heap"

\* the first and the last cell of the new slab
NewFirst == observed.was.heap_cells + 1
NewLast == observed.was.heap_cells + observed.extension

\* the cells that were free before the extension
WereFree ==
  SeqRange(WalkFrom(observed.was.next, observed.was.Next_Free_Object,
                    observed.was.heap_cells))

\* C21: for every n >= 1, extend_heap(n) called when Active holds only free
\* cells threads n new cells as a well-formed doubly-linked chain prepended
\* to Active: Active.head is the first new cell with prev == nil, the last
\* new cell's next is the former head (whose prev is the last new cell),
\* num_objects has grown by n, every new cell has color current_color,
\* next_free == Active.head, and the previously free cells remain reachable
\* from next_free.
C21_ExtendHeapPrependsChain ==
  JustExtended =>
    /\ Active_Heap_Objects.head = NewFirst
    /\ prev[NewFirst] = NIL
    /\ \A c \in NewFirst..(NewLast - 1) : next[c] = c + 1 /\ prev[c + 1] = c
    /\ next[NewLast] = observed.was.Active_Heap_Objects.head
    /\ observed.was.Active_Heap_Objects.head # NIL
         => prev[observed.was.Active_Heap_Objects.head] = NewLast
    /\ Active_Heap_Objects.num_objects
         = observed.was.Active_Heap_Objects.num_objects + observed.extension
    /\ \A c \in NewFirst..NewLast : color[c] = current_color
    /\ Next_Free_Object = Active_Heap_Objects.head
    /\ WereFree \subseteq SeqRange(WalkFrom(next, Next_Free_Object, heap_cells))

\* --------------------------------------- properties of the out-of-order pop
\* the last operation was a pop_root of an address present below the top of
\* Roots and not on top
NonLifoPop ==
  /\ JustPopped
  /\ popped.roots # <<>>
  /\ popped.roots[Len(popped.roots)] # popped.addr
  /\ popped.addr \in SeqRange(popped.roots)

\* the sequence s without its i-th entry
RemoveAt(s, i) == SubSeq(s, 1, i - 1) \o SubSeq(s, i + 1, Len(s))

\* the entries other than one occurrence of the popped address, in the order
\* they had before the pop
OrderKept ==
  \E i \in 1..Len(popped.roots) :
    popped.roots[i] = popped.addr /\ Root_Objects.objs = RemoveAt(popped.roots, i)

\* C22 as stated: after a non-LIFO pop_root(&r) with &r present below the
\* top, the relative order of the entries remaining in Roots differs from
\* their relative order before the pop.
C22_FallbackReorders ==
  (NonLifoPop /\ Len(popped.roots) >= 3) => ~OrderKept

\* the position of the highest occurrence of the popped address
Highest ==
  CHOOSE i \in 1..Len(popped.roots) :
    /\ popped.roots[i] = popped.addr
    /\ \A j \in (i + 1)..Len(popped.roots) : popped.roots[j] # popped.addr

\* C22 amended: after a non-LIFO pop_root(&r) with &r present below the top,
\* the highest occurrence of &r is removed and the entries above it move
\* down one slot each: the relative order of the entries remaining in Roots
\* is the one they had before the pop.
C22_FallbackKeepsOrder ==
  NonLifoPop => Root_Objects.objs = RemoveAt(popped.roots, Highest)

\* a pop from the middle of four entries, with different ones above and
\* below
C22_Witness ==
  /\ NonLifoPop
  /\ Len(popped.roots) = 4
  /\ popped.roots[2] = popped.addr
  /\ popped.roots[1] # popped.roots[3]
  /\ popped.roots[3] # popped.roots[4]
  /\ Root_Objects.objs = <<popped.roots[1], popped.roots[3], popped.roots[4]>>

\* ------------------------------------------------- the value stack alone
\* The caller of vm_execute supplies the value stack, a VECTOR of any
\* capacity; cc copies it at the same capacity.  A client that pushes and
\* pops on stacks of small capacities, up to a largest grown size.
MaxCapacity == 5
MaxGrownCapacity == 14

\* the startup state with a value stack of the given capacity
WithStack(capacity) ==
  [Startup(<<>>) EXCEPT
     !.objects[the_stack].array = [i \in 1..capacity |-> the_empty_list],
     !.status = "running"]

InitPush ==
  /\ IsGC(gc_init)
  /\ Root_Objects = StartupRoots
  /\ type = [c \in Cells |-> "UNINITIALIZED"]
  /\ data = [c \in Cells |-> <<>>]
  /\ locals = [v \in Locals |-> NIL]
  /\ workload = [types |-> {"PAIR", "FIXNUM"}, finalization |-> {FALSE}]
  /\ pc = "idle"
  /\ ret = NIL
  /\ exit_code = NotExited
  /\ wants_fin = [c \in Cells |-> FALSE]
  /\ collects_in_row = 0
  /\ popped = NoPop
  /\ native = NotBuilding
  /\ vm \in {WithStack(capacity) : capacity \in 1..MaxCapacity}
  /\ observed = Nothing

\* VPUSH(thing, stack, stack_top)
PushValue(thing) ==
  /\ vm.status = "running"
  /\ vm.stack_top = VSIZE(vm, vm.stack)
       => GrownSize(VSIZE(vm, vm.stack)) <= MaxGrownCapacity
  /\ vm' = VPUSH(vm, thing)
  /\ observed' = [event |-> "vector_push", was |-> vm, thing |-> thing]
  /\ UNCHANGED <<gcvars, type, data, locals, Root_Objects, workload, pc, ret,
                 exit_code, wants_fin, collects_in_row, popped, native>>

\* VPOP(top, stack, stack_top)
PopValue ==
  /\ vm.status = "running"
  /\ vm.stack_top > 0
  /\ vm' = VPOP(vm)
  /\ observed' = [event |-> "vector_pop", was |-> vm, thing |-> Top(vm)]
  /\ UNCHANGED <<gcvars, type, data, locals, Root_Objects, workload, pc, ret,
                 exit_code, wants_fin, collects_in_row, popped, native>>

NextPush ==
  \/ \E thing \in {Fix(1), Fix(2)} : PushValue(thing)
  \/ PopValue

SpecPush == InitPush /\ [][NextPush]_vars

\* ------------------------------------------------ properties of vector_push
\* the last step pushed onto a full stack of capacity OldCapacity
PushedOnFull ==
  /\ observed.event = "vector_push"
  /\ observed.was.stack_top = VSIZE(observed.was, observed.was.stack)

OldCapacity == VSIZE(observed.was, observed.was.stack)

\* C23: pushing onto a full value stack (top == capacity) always grows it:
\* for every capacity c >= 1 the new capacity is floor(1.8 * c), which is
\* strictly greater than c, so that the pushed value is written at an index
\* inside the vector, and all slots from the old capacity up to the new one
\* other than the pushed slot hold the empty list.
C23_PushOnFullStackGrows ==
  PushedOnFull =>
    /\ VSIZE(vm, vm.stack) = (18 * OldCapacity) \div 10
    /\ VSIZE(vm, vm.stack) > OldCapacity
    /\ vm.status = "running"
    /\ vm.stack_top = OldCapacity + 1
    /\ VARRAY(vm, vm.stack)[OldCapacity + 1] = observed.thing
    /\ \A i \in (OldCapacity + 2)..VSIZE(vm, vm.stack) :
         VARRAY(vm, vm.stack)[i] = the_empty_list

\* --------------------------------------- properties of vm_execute's pinning
\* the entries of Roots when vm_execute was entered
RootsOnEntry == SubSeq(vm.roots_on_entry.objs, 1, vm.roots_on_entry.top)

\* C24: vm_execute keeps the root stack balanced and strictly LIFO: on every
\* exit path (normal return of a value, and every VM_ASSERT failure
\* returning the error symbol) Roots has exactly the entries it had on
\* entry, and every pop_root issued by vm_execute finds its address on top
\* of Roots; between two opcodes Roots holds the entries of entry and on top
\* of them &fn, &env and &top.
C24_VmExecuteKeepsRootsBalanced ==
  /\ vm.status \in {"idle", "running", "returned"} => ~vm.scanned
  /\ vm.status = "returned" =>
       /\ Root_Objects.top = vm.roots_on_entry.top
       /\ Root_Objects.objs = RootsOnEntry
  /\ vm.status = "running" =>
       Root_Objects.objs = RootsOnEntry \o <<"fn", "env", "top">>

\* a VM_ASSERT failure in the middle of a run has returned the error symbol
\* to a host that had a root pinned
C24_Witness ==
  /\ vm.status = "returned"
  /\ vm.result = error_sym
  /\ observed.was.status = "running"
  /\ observed.event \in {"callj", "fcallj", "args"}
  /\ Root_Objects.objs = <<"cc_bytecode">>

\* ------------------------------------------------ properties of closures
\* the slots of the top frame of the env cons e, as a closure that captured
\* e reads them
FrameOf(m, e) == VARRAY(m, car(m, e))

\* C25: a closure's captured environment is stable: if an activation
\* creates a closure with the fn opcode (capturing the current env cons E
\* by identity) and later executes callj to a compiled procedure whose body
\* runs args/argsdot, then the cdr of E and the slot values of E's top frame
\* observed through the closure are the same as when the closure was
\* created: neither the callj nor the callee's args/argsdot changes them.
C25_CapturedEnvStable ==
  (observed.event \in {"callj", "args", "argsdot"} /\ vm.status = "running") =>
    \A e \in observed.captured :
      /\ cdr(vm, e) = cdr(observed.was, e)
      /\ FrameOf(vm, e) = FrameOf(observed.was, e)

====
